---------------------------- MODULE Spec2Model ----------------------------
(***************************************************************************)
(* A model of the Blender MCP tool registry (src/src/tools.py,             *)
(* src/src/models.py, src/src/operations.py) and of the start-up of the    *)
(* server process (src/blender_mcp_server.py, src/src/server.py).          *)
(*                                                                         *)
(* Numbers.  Floating-point arguments are fixed-point integers in units    *)
(* of 1e-5: 0.001 is 100, 1000.0 is 100000000, 10000.0 is 1000000000 and   *)
(* 6.28318 is 628318.  Integer arguments (resolution, segments, ...) are   *)
(* plain integers.                                                         *)
(*                                                                         *)
(* Strings.  A string that comes from the caller (a name, a file path, an  *)
(* enumerated value) is a sequence of one-character strings, so that       *)
(* len(), strip(), upper(), lower(), endswith() and "char in v" are        *)
(* computed as Python computes them.  A result string is a sequence of     *)
(* tokens: Lit(s) for a literal piece of an f-string, Str(v), Num(n),      *)
(* Vec(v) for a formatted value.                                           *)
(*                                                                         *)
(* The wrapper (src/blender_mcp_filter.py).  The child's stdout, the       *)
(* buffer and the units written are sequences of bytes; a decoded text is  *)
(* a sequence of characters.  An ASCII byte and its character are the same *)
(* one-character string.  "C3" and "A9" are the bytes 0xC3 and 0xA9, which *)
(* together are the UTF-8 encoding of the character "U+E9"; either of them *)
(* alone is an invalid sequence, which decode(errors='ignore') drops.      *)
(* "X" is a run of 600 ASCII letters and "Y" a run of 4000.  A JSON text   *)
(* is built from { } [ ] and the comma, the scalar 1, strings (a sequence  *)
(* of "U+E9" and "Y", the quotes left out), and "k", which stands for a    *)
(* member name with its colon.                                             *)
(*                                                                         *)
(* The add-on (src/blender_mcp_addon.py) and the redirect of the standard  *)
(* output in src/blender_mcp_server.py have their own specifications,      *)
(* SpecA and SpecS; their conventions stand at the head of their sections. *)
(***************************************************************************)
EXTENDS Integers, Sequences, FiniteSets, TLC

VARIABLES
    bpy_available,   \* whether "import bpy" can succeed in this process
    phase,           \* "boot" | "serving" | "failed": start-up of the server
    objects,         \* bpy.data.objects: name -> entity record
    active_object,   \* bpy.context.view_layer.objects.active (a name or None)
    materials,       \* bpy.data.materials: name -> base colour
    scene_camera,    \* bpy.context.scene.camera (a name or None)
    render,          \* bpy.context.scene.render: resolution_x/_y, filepath
    data_filepath,   \* bpy.data.filepath
    disk,            \* the paths that exist on the file system
    renders,         \* how many times bpy.ops.render.render has completed
    remaining,       \* tool calls the behaviour may still make
    last,            \* the latest tool call: request, handler calls, outcome
    chain,           \* progress of create_camera, set_active_camera, render_scene
    child_stdout,    \* all the bytes the child writes to its stdout
    read_pos,        \* how many of them process.stdout.read has delivered
    process,         \* the child: "running" | "stdout_closed" | "exited"
    returncode,      \* process.returncode (None while the child is alive)
    buffer,          \* filter_stdout's buffer
    written,         \* the units written to sys.stdout.buffer and flushed
    stdout_thread,   \* "running" | "done"
    stderr_thread,   \* "running" | "done"
    main,            \* the main thread: [pc, waited, status]
    mcp_server_thread,     \* the add-on's global: None or the Thread it names
    mcp_server_stop_flag,  \* the add-on's threading.Event: TRUE when set
    threads,               \* the worker threads created so far: "running" | "dead"
    mcp_server_running,    \* the scene property the panel shows
    operator,              \* Blender's main thread inside the add-on: [pc, ...]
    sys_stdout,      \* the object sys.stdout names: "stdout" | "stderr"
    write_attr,      \* the instance attribute "write" of each stream object
    builtins_print,  \* __builtins__['print']: "print" | "safe_print"
    script,          \* blender_mcp_server.py: [pc, its module globals]
    fd_stdout,       \* what has reached the real standard output
    fd_stderr        \* what has reached the real standard error

hostVars == <<objects, active_object, materials, scene_camera, render,
              data_filepath, disk, renders>>
toolVars == <<bpy_available, phase, objects, active_object, materials,
              scene_camera, render, data_filepath, disk, renders, remaining,
              last, chain>>
readerVars == <<child_stdout, read_pos, buffer, written, stdout_thread>>
wrapperVars == <<child_stdout, read_pos, process, returncode, buffer, written,
                 stdout_thread, stderr_thread, main>>
addonVars == <<mcp_server_thread, mcp_server_stop_flag, threads,
               mcp_server_running, operator>>
scriptVars == <<sys_stdout, write_attr, builtins_print, script, fd_stdout,
                fd_stderr>>
vars == <<toolVars, wrapperVars, addonVars, scriptVars>>

-----------------------------------------------------------------------------
(* Bounds of the model *)

MaxCalls == 3
MaxCallsV == 1
MaxObjects == 2

-----------------------------------------------------------------------------
(* Program constants *)

NameMinLen == 1
NameMaxLen == 63
SizeGt == 100
SizeLe == 100000000
RadiusGe == 0
EnergyGe == 0
EnergyLe == 100000000
LocationLimit == 1000000000
RotationLimit == 628318
ScaleLe == 100000000
ResolutionGe == 1
ResolutionLe == 10000
SegmentsGe == 3
SegmentsLe == 100000
VerticesLe == 256

None == [none |-> TRUE]

-----------------------------------------------------------------------------
(* Python strings *)

S1(a) == <<a>>
Rep(c, n) == [i \in 1..n |-> c]

UpperCase == <<"A","B","C","D","E","F","G","H","I","J","K","L","M",
               "N","O","P","Q","R","S","T","U","V","W","X","Y","Z">>
LowerCase == <<"a","b","c","d","e","f","g","h","i","j","k","l","m",
               "n","o","p","q","r","s","t","u","v","w","x","y","z">>
Whitespace == {" ", "\t", "\n", "\r"}

UpperChar(c) ==
    IF \E i \in DOMAIN LowerCase : LowerCase[i] = c
    THEN UpperCase[CHOOSE i \in DOMAIN LowerCase : LowerCase[i] = c]
    ELSE c
LowerChar(c) ==
    IF \E i \in DOMAIN UpperCase : UpperCase[i] = c
    THEN LowerCase[CHOOSE i \in DOMAIN UpperCase : UpperCase[i] = c]
    ELSE c

upper(v) == [i \in DOMAIN v |-> UpperChar(v[i])]
lower(v) == [i \in DOMAIN v |-> LowerChar(v[i])]

endswith(v, suffix) ==
    /\ Len(v) >= Len(suffix)
    /\ SubSeq(v, Len(v) - Len(suffix) + 1, Len(v)) = suffix

strip(v) ==
    LET keep == {i \in DOMAIN v : v[i] \notin Whitespace}
    IN  IF keep = {} THEN <<>>
        ELSE LET lo == CHOOSE i \in keep : \A j \in keep : i <= j
                 hi == CHOOSE i \in keep : \A j \in keep : j <= i
             IN  SubSeq(v, lo, hi)

contains(v, c) == \E i \in DOMAIN v : v[i] = c

-----------------------------------------------------------------------------
(* Result strings *)

Lit(s) == [lit |-> s]
Str(v) == [str |-> v]
Num(n) == [num |-> n]
Vec(v) == [vec |-> v]

IsLit(t, s) == "lit" \in DOMAIN t /\ t.lit = s
BeginsWithError(text) == Len(text) >= 1 /\ IsLit(text[1], "Error")
HasLit(text, s) == \E i \in DOMAIN text : IsLit(text[i], s)
HasStr(text, v) == \E i \in DOMAIN text : "str" \in DOMAIN text[i] /\ text[i].str = v
HasNum(text, n) == \E i \in DOMAIN text : "num" \in DOMAIN text[i] /\ text[i].num = n


-----------------------------------------------------------------------------
(* pydantic: field constraints, field validators, model construction.      *)
(* A field's outcome is FieldOk(value) or FieldErr(input, message).  A      *)
(* field's declared constraints are checked first and its field_validator  *)
(* runs only on a value that passed them; each field reports at most one   *)
(* error.                                                                  *)

FieldOk(v) == [ok |-> TRUE, val |-> v]
FieldErr(v, m) == [ok |-> FALSE, input |-> v, msg |-> m]

\* r is the outcome of what is checked first, next of what is checked on a
\* value that passed (no constraint changes the value).
After(r, next) == IF r.ok THEN next ELSE r

min_length(v, n) ==
    IF Len(v) < n
    THEN FieldErr(v, <<Lit("String should have at least "), Num(n), Lit(" character")>>)
    ELSE FieldOk(v)
max_length(v, n) ==
    IF Len(v) > n
    THEN FieldErr(v, <<Lit("String should have at most "), Num(n), Lit(" characters")>>)
    ELSE FieldOk(v)
\* A faulty variant of gt that accepts the bound itself.
gt_inclusive(v, b) ==
    IF v >= b THEN FieldOk(v)
    ELSE FieldErr(v, <<Lit("Input should be greater than "), Num(b)>>)
gt(v, b) ==
    IF v > b THEN FieldOk(v)
    ELSE FieldErr(v, <<Lit("Input should be greater than "), Num(b)>>)
ge(v, b) ==
    IF v >= b THEN FieldOk(v)
    ELSE FieldErr(v, <<Lit("Input should be greater than or equal to "), Num(b)>>)
le(v, b) ==
    IF v <= b THEN FieldOk(v)
    ELSE FieldErr(v, <<Lit("Input should be less than or equal to "), Num(b)>>)

ValueError(v, m) == FieldErr(v, <<Lit("Value error, ")>> \o m)

NameField(v) ==
    After(min_length(v, NameMinLen), max_length(v, NameMaxLen))

invalid_chars == <<"/", "\\", ":", "*", "?", "\"", "<", ">", "|">>

\* A faulty variant of validate_name that only strips.
validate_name_strip_only(v) == FieldOk(strip(v))

validate_name(v) ==
    IF \E i \in DOMAIN invalid_chars : contains(v, invalid_chars[i])
    THEN ValueError(v, <<Lit("Name cannot contain: "), Lit("/, \\, :, *, ?, \", <, >, |")>>)
    ELSE FieldOk(strip(v))

within(v, limit) == \A i \in 1..3 : -limit <= v[i] /\ v[i] <= limit

\* A faulty variant of validate_location that looks at x only.
validate_location_x_only(v) ==
    IF ~(-LocationLimit <= v[1] /\ v[1] <= LocationLimit)
    THEN ValueError(v, <<Lit("Location coordinates must be within +/-"),
                         Num(LocationLimit)>>)
    ELSE FieldOk(v)

validate_location(v) ==
    IF ~within(v, LocationLimit)
    THEN ValueError(v, <<Lit("Location coordinates must be within +/-"), Num(LocationLimit)>>)
    ELSE FieldOk(v)

validate_vector3(v) ==
    IF ~within(v, LocationLimit)
    THEN ValueError(v, <<Lit("Vector coordinates must be within +/-"), Num(LocationLimit)>>)
    ELSE FieldOk(v)

validate_rotation(v) ==
    IF ~within(v, RotationLimit)
    THEN ValueError(v, <<Lit("Rotation values should be within +/-"), Num(RotationLimit),
                      Lit(" radians (approximately +/-360 degrees)")>>)
    ELSE FieldOk(v)

validate_scale_sphere(v) ==
    IF ~(\A i \in 1..3 : v[i] >= 0)
    THEN ValueError(v, <<Lit("Scale values must be >= 0.0")>>)
    ELSE IF ~(\A i \in 1..3 : v[i] <= ScaleLe)
    THEN ValueError(v, <<Lit("Scale values must be <= 1000.0")>>)
    ELSE FieldOk(v)

validate_scale(v) ==
    IF ~(\A i \in 1..3 : v[i] > 0)
    THEN ValueError(v, <<Lit("Scale values must be positive (greater than 0)")>>)
    ELSE IF ~(\A i \in 1..3 : v[i] <= ScaleLe)
    THEN ValueError(v, <<Lit("Scale values must be <= 1000.0")>>)
    ELSE FieldOk(v)

ColorMax == 100000

validate_color(v) ==
    IF ~(\A i \in 1..3 : 0 <= v[i] /\ v[i] <= ColorMax)
    THEN ValueError(v, <<Lit("Color values must be between 0.0 and 1.0")>>)
    ELSE FieldOk(v)

SUN == <<"S","U","N">>
POINT == <<"P","O","I","N","T">>
SPOT == <<"S","P","O","T">>
AREA == <<"A","R","E","A">>
valid_types == <<SUN, POINT, SPOT, AREA>>

\* A faulty variant of validate_light_type that returns v as given.
validate_light_type_as_given(v) ==
    IF ~(\E i \in DOMAIN valid_types : valid_types[i] = upper(v))
    THEN ValueError(v, <<Lit("Light type must be one of: "),
                         Lit("SUN, POINT, SPOT, AREA")>>)
    ELSE FieldOk(v)

validate_light_type(v) ==
    IF ~(\E i \in DOMAIN valid_types : valid_types[i] = upper(v))
    THEN ValueError(v, <<Lit("Light type must be one of: "), Lit("SUN, POINT, SPOT, AREA")>>)
    ELSE FieldOk(upper(v))

WORLD == <<"W","O","R","L","D">>
VIEW == <<"V","I","E","W">>
CURSOR == <<"C","U","R","S","O","R">>
AlignLiteral == <<WORLD, VIEW, CURSOR>>

align_literal(v) ==
    IF \E i \in DOMAIN AlignLiteral : AlignLiteral[i] = v
    THEN FieldOk(v)
    ELSE FieldErr(v, <<Lit("Input should be 'WORLD', 'VIEW' or 'CURSOR'")>>)

image_extensions ==
    << <<".","p","n","g">>, <<".","j","p","g">>, <<".","j","p","e","g">>,
       <<".","b","m","p">>, <<".","t","i","f","f">>, <<".","e","x","r">> >>
blend_extension == <<".","b","l","e","n","d">>

validate_filepath_image(v) ==
    IF ~(\E i \in DOMAIN image_extensions : endswith(lower(v), image_extensions[i]))
    THEN ValueError(v, <<Lit("Filepath must end with one of: "),
                      Lit(".png, .jpg, .jpeg, .bmp, .tiff, .exr")>>)
    ELSE FieldOk(v)

validate_filepath_blend(v) ==
    IF ~endswith(lower(v), blend_extension)
    THEN ValueError(v, <<Lit("Filepath must end with .blend extension")>>)
    ELSE FieldOk(strip(v))

validate_optional_location(v) ==
    IF "none" \in DOMAIN v THEN FieldOk(None)
    ELSE IF ~within(v.some, LocationLimit)
    THEN ValueError(v, <<Lit("Location coordinates must be within +/-"), Num(LocationLimit)>>)
    ELSE FieldOk(v)

F(loc, r) == [loc |-> loc, r |-> r]

(* A faulty variant of BaseModel that stops at the first field in error.   *)
BaseModel_first_error(model, fields) ==
    LET bad == SelectSeq(fields, LAMBDA f : ~f.r.ok)
    IN  IF bad = <<>>
        THEN [valid |-> TRUE, fields |-> fields,
              input |-> [k \in {fields[i].loc : i \in DOMAIN fields} |->
                           fields[CHOOSE i \in DOMAIN fields : fields[i].loc = k].r.val]]
        ELSE [valid |-> FALSE, fields |-> fields,
              error |-> [model |-> model,
                         errors |-> <<[loc |-> bad[1].loc, msg |-> bad[1].r.msg]>>]]

(* BaseModel.model_construct: the model is built from the given values     *)
(* with no validation at all.  A faulty variant of BaseModel.               *)
BaseModel_construct(model, fields) ==
    [valid |-> TRUE, fields |-> fields,
     input |-> [k \in {fields[i].loc : i \in DOMAIN fields} |->
                  LET f == fields[CHOOSE i \in DOMAIN fields : fields[i].loc = k]
                  IN  IF f.r.ok THEN f.r.val ELSE f.r.input]]

(* BaseModel.__init__: every field is validated, in declaration order; the  *)
(* errors of all fields are collected into one ValidationError.            *)
BaseModel(model, fields) ==
    LET bad == SelectSeq(fields, LAMBDA f : ~f.r.ok)
    IN  IF bad = <<>>
        THEN [valid |-> TRUE, fields |-> fields,
              input |-> [k \in {fields[i].loc : i \in DOMAIN fields} |->
                           fields[CHOOSE i \in DOMAIN fields : fields[i].loc = k].r.val]]
        ELSE [valid |-> FALSE, fields |-> fields,
              error |-> [model |-> model,
                         errors |-> [i \in DOMAIN bad |->
                                       [loc |-> bad[i].loc, msg |-> bad[i].r.msg]]]]

RECURSIVE ErrorLines(_)
ErrorLines(errors) ==
    IF errors = <<>> THEN <<>>
    ELSE <<Lit("\n"), Lit(Head(errors).loc), Lit("\n  ")>> \o Head(errors).msg
         \o ErrorLines(Tail(errors))

(* str(ValidationError) *)
ValidationErrorStr(e) ==
    <<Num(Len(e.errors)), Lit(" validation error(s) for "), Lit(e.model)>>
    \o ErrorLines(e.errors)

CreateCubeInput(name, size, location) ==
    BaseModel("CreateCubeInput", <<
        F("name", After(NameField(name), validate_name(name))),
        F("size", After(gt(size, SizeGt), le(size, SizeLe))),
        F("location", validate_location(location)) >>)

CreateSphereInput(name, segments, ring_count, radius, calc_uvs, enter_editmode, align, location, rotation, scale) ==
    BaseModel("CreateSphereInput", <<
        F("name", After(NameField(name), validate_name(name))),
        F("segments", After(ge(segments, SegmentsGe), le(segments, SegmentsLe))),
        F("ring_count", After(ge(ring_count, SegmentsGe), le(ring_count, SegmentsLe))),
        F("radius", After(ge(radius, RadiusGe), le(radius, SizeLe))),
        F("calc_uvs", FieldOk(calc_uvs)),
        F("enter_editmode", FieldOk(enter_editmode)),
        F("align", align_literal(align)),
        F("location", validate_vector3(location)),
        F("rotation", validate_vector3(rotation)),
        F("scale", validate_scale_sphere(scale)) >>)

MoveObjectInput(name, location) ==
    BaseModel("MoveObjectInput", <<
        F("name", NameField(name)),
        F("location", validate_location(location)) >>)

DeleteObjectInput(name) ==
    BaseModel("DeleteObjectInput", << F("name", NameField(name)) >>)

SelectObjectInput(name) ==
    BaseModel("SelectObjectInput", << F("name", NameField(name)) >>)

CreateMaterialInput(name, color) ==
    BaseModel("CreateMaterialInput", <<
        F("name", NameField(name)),
        F("color", validate_color(color)) >>)

AssignMaterialInput(object_name, material_name) ==
    BaseModel("AssignMaterialInput", <<
        F("object_name", NameField(object_name)),
        F("material_name", NameField(material_name)) >>)

RotateObjectInput(name, rotation) ==
    BaseModel("RotateObjectInput", <<
        F("name", NameField(name)),
        F("rotation", validate_rotation(rotation)) >>)

ScaleObjectInput(name, scale) ==
    BaseModel("ScaleObjectInput", <<
        F("name", NameField(name)),
        F("scale", validate_scale(scale)) >>)

GetObjectInfoInput(name) ==
    BaseModel("GetObjectInfoInput", << F("name", NameField(name)) >>)

CreateCameraInput(name, location, rotation) ==
    BaseModel("CreateCameraInput", <<
        F("name", After(NameField(name), validate_name(name))),
        F("location", validate_location(location)),
        F("rotation", FieldOk(rotation)) >>)

CreateLightInput(name, light_type, location, energy) ==
    BaseModel("CreateLightInput", <<
        F("name", After(NameField(name), validate_name(name))),
        F("light_type", validate_light_type(light_type)),
        F("location", validate_location(location)),
        F("energy", After(ge(energy, EnergyGe), le(energy, EnergyLe))) >>)

RenderSceneInput(filepath, resolution_x, resolution_y) ==
    BaseModel("RenderSceneInput", <<
        F("filepath", After(min_length(filepath, 1), validate_filepath_image(filepath))),
        F("resolution_x", After(ge(resolution_x, ResolutionGe), le(resolution_x, ResolutionLe))),
        F("resolution_y", After(ge(resolution_y, ResolutionGe), le(resolution_y, ResolutionLe))) >>)

CreateCylinderInput(name, radius, depth, location, vertices) ==
    BaseModel("CreateCylinderInput", <<
        F("name", After(NameField(name), validate_name(name))),
        F("radius", After(gt(radius, SizeGt), le(radius, SizeLe))),
        F("depth", After(gt(depth, SizeGt), le(depth, SizeLe))),
        F("location", validate_location(location)),
        F("vertices", After(ge(vertices, SegmentsGe), le(vertices, VerticesLe))) >>)

CreatePlaneInput(name, size, location) ==
    BaseModel("CreatePlaneInput", <<
        F("name", After(NameField(name), validate_name(name))),
        F("size", After(gt(size, SizeGt), le(size, SizeLe))),
        F("location", validate_location(location)) >>)

DuplicateObjectInput(name, new_name, location) ==
    BaseModel("DuplicateObjectInput", <<
        F("name", NameField(name)),
        F("new_name", After(NameField(new_name), validate_name(new_name))),
        F("location", validate_optional_location(location)) >>)

SetActiveCameraInput(camera_name) ==
    BaseModel("SetActiveCameraInput", << F("camera_name", NameField(camera_name)) >>)

SaveFileInput(filepath) ==
    BaseModel("SaveFileInput", <<
        F("filepath", After(min_length(filepath, 1), validate_filepath_blend(filepath))) >>)

OpenFileInput(filepath) ==
    BaseModel("OpenFileInput", <<
        F("filepath", After(min_length(filepath, 1), validate_filepath_blend(filepath))) >>)

-----------------------------------------------------------------------------
(* The host object model (bpy), as far as the handlers use it.  A host     *)
(* state h is a record of bpy.data.objects, the active object, the         *)
(* materials, the scene camera, the render settings, bpy.data.filepath and *)
(* the file system.  An entity is a record of its type, transform,         *)
(* selection flag and type-specific data.                                  *)

Some(v) == [some |-> v]
IsNone(x) == "none" \in DOMAIN x

Zero3 == <<0, 0, 0>>
One3 == <<100000, 100000, 100000>>

Entity(type, location, rotation, data) ==
    [type |-> type, location |-> location, rotation_euler |-> rotation,
     scale |-> One3, selected |-> TRUE, data |-> data]

MeshData(prim, params) == [prim |-> prim, params |-> params, materials |-> <<>>]
CameraData == [camera |-> TRUE]
LightData(type) == [light |-> type, energy |-> 1000000]

\* A name Blender gives when the wanted one is empty.
DefaultName == <<"O","b","j","e","c","t">>
NameSuffix(k) == <<".", "0", "0">> \o
    <<(<<"1","2","3","4","5","6","7","8","9">>)[k]>>

\* ID names are unique per collection: a taken name gets a numeric suffix.
HostName(taken, want) ==
    LET base == IF want = <<>> THEN DefaultName ELSE want
    IN  IF base \notin taken THEN base
        ELSE base \o NameSuffix(CHOOSE k \in 1..9 :
                 /\ (base \o NameSuffix(k)) \notin taken
                 /\ \A j \in 1..(k-1) : (base \o NameSuffix(j)) \in taken)

Without(f, k) == [x \in (DOMAIN f) \ {k} |-> f[x]]
DeselectAll(objs) == [n \in DOMAIN objs |-> [objs[n] EXCEPT !.selected = FALSE]]
SelectAll(objs) == [n \in DOMAIN objs |-> [objs[n] EXCEPT !.selected = TRUE]]

\* bpy.ops.*_add followed by "<new object>.name = name": the new entity is
\* the only selected one and the active one.
AddNamed(h, name, entity) ==
    LET n == HostName(DOMAIN h.objects, name)
    IN  [h EXCEPT !.objects = DeselectAll(h.objects) @@ (n :> entity),
                  !.active_object = Some(n)]

\* bpy.data.objects.remove(obj): references to the entity are cleared.
RemoveObject(h, n) ==
    [h EXCEPT !.objects = Without(h.objects, n),
              !.active_object = IF h.active_object = Some(n) THEN None ELSE @,
              !.scene_camera = IF h.scene_camera = Some(n) THEN None ELSE @]

MeshVertices(d) ==
    CASE d.prim = "cube" -> 8
      [] d.prim = "plane" -> 4
      [] d.prim = "cylinder" -> 2 * d.params.vertices
      [] OTHER -> d.params.segments * (d.params.ring_count - 1) + 2
MeshFaces(d) ==
    CASE d.prim = "cube" -> 6
      [] d.prim = "plane" -> 1
      [] d.prim = "cylinder" -> d.params.vertices + 2
      [] OTHER -> d.params.segments * d.params.ring_count

RECURSIVE SetToSeq(_)
SetToSeq(S) ==
    IF S = {} THEN <<>>
    ELSE LET x == CHOOSE y \in S : TRUE IN <<x>> \o SetToSeq(S \ {x})

-----------------------------------------------------------------------------
(* Outcomes of a body of code: it returns a string or raises. *)

Return(h, text) == [kind |-> "return", h |-> h, text |-> text]
Raise(h, type, msg) == [kind |-> "raise", h |-> h, exc |-> [type |-> type, msg |-> msg]]

HostFailure(h) == Raise(h, "RuntimeError", <<Lit("bpy operation failed")>>)

BpyNotFound ==
    <<Lit("Error"), Lit(": "),
      Lit("bpy module not found. Tool must run in Blender environment.")>>

NotFound(kind, name) ==
    <<Lit("Error"), Lit(": "), Lit(kind), Lit(" '"), Str(name), Lit("' not found")>>

Successfully(rest) == <<Lit("Successfully")>> \o rest

\* A faulty variant of handler_try, without the "except Exception" clause:
\* what the body raises leaves the handler.
handler_try_uncaught(label, h, body) ==
    IF ~h.bpy THEN Return(h, BpyNotFound)
    ELSE IF body.kind = "raise" /\ body.exc.type = "ImportError"
    THEN Return(body.h, BpyNotFound)
    ELSE body

\* try: import bpy; <body>
\* except ImportError: return "Error: bpy module not found. ..."
\* except Exception as e: return f"Error [<label>]: {str(e)}"
handler_try(label, h, body) ==
    IF ~h.bpy THEN Return(h, BpyNotFound)
    ELSE IF body.kind = "raise"
    THEN IF body.exc.type = "ImportError"
         THEN Return(body.h, BpyNotFound)
         ELSE Return(body.h, <<Lit("Error"), Lit(" ["), Lit(label), Lit("]: ")>>
                             \o body.exc.msg)
    ELSE body

-----------------------------------------------------------------------------
(* The handlers of operations.py.  h is the host state before the call,    *)
(* input the validated input, hc the host's part: "raise" when the bpy     *)
(* operator the handler calls raises, "ok" otherwise (and, where the host  *)
(* has a further choice, the name of that choice).                         *)

create_cube(h, input, hc) ==
    handler_try("Create Cube", h,
        IF hc = "raise" THEN HostFailure(h)
        ELSE LET h1 == AddNamed(h, input.name,
                         Entity("MESH", input.location, Zero3,
                                MeshData("cube", [size |-> input.size])))
             IN  IF IsNone(h1.active_object)
                 THEN Return(h1, <<Lit("Error"), Lit(": "),
                         Lit("Cube created but could not get reference to object")>>)
                 ELSE Return(h1, Successfully(<<Lit(" created cube '"), Str(input.name),
                         Lit("' with size "), Num(input.size),
                         Lit(" at location "), Vec(input.location)>>)))

create_sphere(h, input, hc) ==
    handler_try("Create Sphere", h,
        IF hc = "raise" THEN HostFailure(h)
        ELSE LET h1 == AddNamed(h, input.name,
                         Entity("MESH", input.location, input.rotation,
                                MeshData("sphere",
                                    [segments |-> input.segments,
                                     ring_count |-> input.ring_count,
                                     radius |-> input.radius,
                                     calc_uvs |-> input.calc_uvs,
                                     enter_editmode |-> input.enter_editmode,
                                     align |-> input.align,
                                     scale |-> input.scale])))
             IN  IF IsNone(h1.active_object)
                 THEN Return(h1, <<Lit("Error"), Lit(": "),
                         Lit("Sphere created but could not get reference to object")>>)
                 ELSE Return(h1, Successfully(<<Lit(" created sphere '"), Str(input.name),
                         Lit("' with radius "), Num(input.radius),
                         Lit(" (segments="), Num(input.segments),
                         Lit(", rings="), Num(input.ring_count),
                         Lit(") at location "), Vec(input.location)>>)))

move_object(h, input, hc) ==
    handler_try("Move Object", h,
        IF input.name \notin DOMAIN h.objects
        THEN Return(h, NotFound("Object", input.name))
        ELSE LET h1 == [h EXCEPT !.active_object = Some(input.name)]
             IN  IF hc = "raise" THEN HostFailure(h1)
                 ELSE Return([h1 EXCEPT !.objects[input.name].selected = TRUE,
                                        !.objects[input.name].location = input.location],
                             Successfully(<<Lit(" moved object '"), Str(input.name),
                                 Lit("' to location "), Vec(input.location)>>)))

RECURSIVE ObjectLines(_, _)
ObjectLines(objs, names) ==
    IF names = <<>> THEN <<>>
    ELSE <<Lit("\n  - "), Str(Head(names)), Lit(" ("), Lit(objs[Head(names)].type),
           Lit(") at location "), Vec(objs[Head(names)].location)>>
         \o ObjectLines(objs, Tail(names))

\* A faulty variant of list_objects that leaves the first entity out of the
\* lines.
list_objects_skips_first(h, hc) ==
    handler_try("List Objects", h,
        IF Cardinality(DOMAIN h.objects) = 0
        THEN Return(h, <<Lit("Scene is empty - no objects found")>>)
        ELSE Return(h, <<Lit("Found "), Num(Cardinality(DOMAIN h.objects)),
                         Lit(" object(s):")>>
                       \o ObjectLines(h.objects, Tail(SetToSeq(DOMAIN h.objects)))))

list_objects(h, hc) ==
    handler_try("List Objects", h,
        IF Cardinality(DOMAIN h.objects) = 0
        THEN Return(h, <<Lit("Scene is empty - no objects found")>>)
        ELSE Return(h, <<Lit("Found "), Num(Cardinality(DOMAIN h.objects)),
                         Lit(" object(s):")>>
                       \o ObjectLines(h.objects, SetToSeq(DOMAIN h.objects))))

delete_object(h, input, hc) ==
    handler_try("Delete Object", h,
        IF input.name \notin DOMAIN h.objects
        THEN Return(h, NotFound("Object", input.name))
        ELSE IF hc = "raise" THEN HostFailure(h)
        ELSE Return(RemoveObject(h, input.name),
                    Successfully(<<Lit(" deleted object '"), Str(input.name), Lit("'")>>)))

\* A faulty variant of select_object: it deselects everything before it
\* looks the object up.
select_object_deselect_first(h, input, hc) ==
    handler_try("Select Object", h,
        LET h1 == [h EXCEPT !.objects = DeselectAll(h.objects)]
        IN  IF input.name \notin DOMAIN h.objects
            THEN Return(h1, NotFound("Object", input.name))
            ELSE Return([h1 EXCEPT !.objects[input.name].selected = TRUE,
                                   !.active_object = Some(input.name)],
                        Successfully(<<Lit(" selected object '"), Str(input.name),
                                       Lit("'")>>)))

\* A faulty variant of select_object that keeps the selection there was.
select_object_keeps_selection(h, input, hc) ==
    handler_try("Select Object", h,
        IF input.name \notin DOMAIN h.objects
        THEN Return(h, NotFound("Object", input.name))
        ELSE IF hc = "raise" THEN HostFailure(h)
        ELSE Return([h EXCEPT !.objects[input.name].selected = TRUE,
                              !.active_object = Some(input.name)],
                    Successfully(<<Lit(" selected object '"), Str(input.name), Lit("'")>>)))

select_object(h, input, hc) ==
    handler_try("Select Object", h,
        IF input.name \notin DOMAIN h.objects
        THEN Return(h, NotFound("Object", input.name))
        ELSE IF hc = "raise" THEN HostFailure(h)
        ELSE Return([h EXCEPT !.objects = [DeselectAll(h.objects) EXCEPT
                                              ![input.name].selected = TRUE],
                              !.active_object = Some(input.name)],
                    Successfully(<<Lit(" selected object '"), Str(input.name), Lit("'")>>)))

\* hc = "nodes": the new material has a Principled BSDF node, whose base
\* colour is set; hc = "ok": it has none and keeps the host's default colour.
DefaultColor == <<80000, 80000, 80000>>

\* A faulty variant of create_material without the check for an existing
\* material: the host gives the new material a free name.
create_material_unchecked(h, input, hc) ==
    handler_try("Create Material", h,
        IF hc = "raise" THEN HostFailure(h)
        ELSE Return([h EXCEPT !.materials = @ @@ (HostName(DOMAIN h.materials, input.name) :>
                                 (IF hc = "nodes" THEN input.color ELSE DefaultColor))],
                    Successfully(<<Lit(" created material '"), Str(input.name),
                        Lit("' with color RGB"), Vec(input.color)>>)))

create_material(h, input, hc) ==
    handler_try("Create Material", h,
        IF input.name \in DOMAIN h.materials
        THEN Return(h, <<Lit("Error"), Lit(": "), Lit("Material"), Lit(" '"),
                         Str(input.name), Lit("' already exists")>>)
        ELSE IF hc = "raise" THEN HostFailure(h)
        ELSE Return([h EXCEPT !.materials = @ @@ (HostName(DOMAIN h.materials, input.name) :>
                                 (IF hc = "nodes" THEN input.color ELSE DefaultColor))],
                    Successfully(<<Lit(" created material '"), Str(input.name),
                        Lit("' with color RGB"), Vec(input.color)>>)))

assign_material(h, input, hc) ==
    handler_try("Assign Material", h,
        IF input.object_name \notin DOMAIN h.objects
        THEN Return(h, NotFound("Object", input.object_name))
        ELSE IF input.material_name \notin DOMAIN h.materials
        THEN Return(h, NotFound("Material", input.material_name))
        ELSE LET obj == h.objects[input.object_name]
             IN  IF "materials" \notin DOMAIN obj.data
                 THEN Raise(h, "AttributeError",
                            <<Lit("object has no attribute 'materials'")>>)
                 ELSE Return([h EXCEPT !.objects[input.object_name].data.materials =
                                 IF obj.data.materials # <<>>
                                 THEN [obj.data.materials EXCEPT ![1] = input.material_name]
                                 ELSE Append(obj.data.materials, input.material_name)],
                             Successfully(<<Lit(" assigned material '"),
                                 Str(input.material_name), Lit("' to object '"),
                                 Str(input.object_name), Lit("'")>>)))

rotate_object(h, input, hc) ==
    handler_try("Rotate Object", h,
        IF input.name \notin DOMAIN h.objects
        THEN Return(h, NotFound("Object", input.name))
        ELSE Return([h EXCEPT !.objects[input.name].rotation_euler = input.rotation],
                    Successfully(<<Lit(" rotated object '"), Str(input.name),
                        Lit("' to rotation "), Vec(input.rotation)>>)))

scale_object(h, input, hc) ==
    handler_try("Scale Object", h,
        IF input.name \notin DOMAIN h.objects
        THEN Return(h, NotFound("Object", input.name))
        ELSE Return([h EXCEPT !.objects[input.name].scale = input.scale],
                    Successfully(<<Lit(" scaled object '"), Str(input.name),
                        Lit("' to scale "), Vec(input.scale)>>)))

get_object_info(h, input, hc) ==
    handler_try("Get Object Info", h,
        IF input.name \notin DOMAIN h.objects
        THEN Return(h, NotFound("Object", input.name))
        ELSE LET obj == h.objects[input.name]
             IN  Return(h, <<Lit("Object: "), Str(input.name),
                             Lit("\nType: "), Lit(obj.type),
                             Lit("\nLocation: "), Vec(obj.location),
                             Lit("\nRotation: "), Vec(obj.rotation_euler),
                             Lit("\nScale: "), Vec(obj.scale)>>
                           \o (IF obj.type = "MESH"
                               THEN <<Lit("\nVertices: "), Num(MeshVertices(obj.data)),
                                      Lit("\nFaces: "), Num(MeshFaces(obj.data))>>
                               ELSE <<>>)))

\* hc = "scene": the host's camera_add also makes the new camera the scene
\* camera when the scene has none (it does so from a locked 3D viewport).
create_camera(h, input, hc) ==
    handler_try("Create Camera", h,
        IF hc = "raise" THEN HostFailure(h)
        ELSE LET h1 == AddNamed(h, input.name,
                         Entity("CAMERA", input.location, input.rotation, CameraData))
                 h2 == IF hc = "scene" /\ IsNone(h.scene_camera)
                       THEN [h1 EXCEPT !.scene_camera = h1.active_object]
                       ELSE h1
             IN  IF IsNone(h2.active_object)
                 THEN Return(h2, <<Lit("Error"), Lit(": "),
                         Lit("Camera created but could not get reference to object")>>)
                 ELSE Return(h2, Successfully(<<Lit(" created camera '"), Str(input.name),
                         Lit("' at location "), Vec(input.location),
                         Lit(" with rotation "), Vec(input.rotation)>>)))

create_light(h, input, hc) ==
    handler_try("Create Light", h,
        IF hc = "raise" THEN HostFailure(h)
        ELSE LET known == \E i \in DOMAIN valid_types : valid_types[i] = input.light_type
                 h1 == IF known
                       THEN AddNamed(h, input.name,
                              [Entity("LIGHT", input.location, Zero3,
                                      LightData(input.light_type))
                               EXCEPT !.data.energy = input.energy])
                       ELSE h
             IN  IF IsNone(h1.active_object)
                 THEN Return(h1, <<Lit("Error"), Lit(": "),
                         Lit("Light created but could not get reference to object")>>)
                 ELSE Return(h1, Successfully(<<Lit(" created "), Str(input.light_type),
                         Lit(" light '"), Str(input.name),
                         Lit("' at location "), Vec(input.location),
                         Lit(" with energy "), Num(input.energy)>>)))

\* A faulty variant of render_scene that sets the render settings before
\* it looks for the scene's camera.
render_scene_settings_first(h, input, hc) ==
    handler_try("Render Scene", h,
        LET h1 == [h EXCEPT !.render = [resolution_x |-> input.resolution_x,
                                        resolution_y |-> input.resolution_y,
                                        filepath |-> input.filepath]]
        IN  IF IsNone(h.scene_camera)
            THEN Return(h1, <<Lit("Error"), Lit(" ["), Lit("Render Scene"), Lit("]: "),
                              Lit("No active camera"),
                              Lit(" found. Create a camera before rendering.")>>)
            ELSE IF hc = "raise" THEN HostFailure(h1)
            ELSE Return([h1 EXCEPT !.disk = @ \cup {input.filepath},
                                   !.renders = @ + 1],
                        Successfully(<<Lit(" rendered scene to '"), Str(input.filepath),
                            Lit("' at resolution "), Num(input.resolution_x),
                            Lit("x"), Num(input.resolution_y)>>)))

render_scene(h, input, hc) ==
    handler_try("Render Scene", h,
        IF IsNone(h.scene_camera)
        THEN Return(h, <<Lit("Error"), Lit(" ["), Lit("Render Scene"), Lit("]: "),
                         Lit("No active camera"),
                         Lit(" found. Create a camera before rendering.")>>)
        ELSE LET h1 == [h EXCEPT !.render = [resolution_x |-> input.resolution_x,
                                             resolution_y |-> input.resolution_y,
                                             filepath |-> input.filepath]]
             IN  IF hc = "raise" THEN HostFailure(h1)
                 ELSE Return([h1 EXCEPT !.disk = @ \cup {input.filepath},
                                        !.renders = @ + 1],
                             Successfully(<<Lit(" rendered scene to '"), Str(input.filepath),
                                 Lit("' at resolution "), Num(input.resolution_x),
                                 Lit("x"), Num(input.resolution_y)>>)))

save_file(h, input, hc) ==
    handler_try("Save File", h,
        IF hc = "raise" THEN HostFailure(h)
        ELSE Return([h EXCEPT !.data_filepath = input.filepath,
                              !.disk = @ \cup {input.filepath}],
                    Successfully(<<Lit(" saved Blender file to '"), Str(input.filepath),
                        Lit("'")>>)))

\* The documents a .blend file on disk may hold.
DefaultRender ==
    [resolution_x |-> 1920, resolution_y |-> 1080, filepath |-> <<"/","t","m","p","/">>]
NameA == <<"A">>
NameB == <<"B">>
NameC == <<"C">>
DocEmpty ==
    [objects |-> <<>>, active_object |-> None, materials |-> <<>>,
     scene_camera |-> None, render |-> DefaultRender]
DocScene ==
    [objects |-> (NameA :> [Entity("MESH", Zero3, Zero3, MeshData("cube", [size |-> 200000]))
                            EXCEPT !.selected = FALSE])
                 @@ (NameC :> [Entity("CAMERA", Zero3, Zero3, CameraData)
                               EXCEPT !.selected = FALSE]),
     active_object |-> None, materials |-> <<>>,
     scene_camera |-> None, render |-> DefaultRender]
DocSceneCamera == [DocScene EXCEPT !.scene_camera = Some(NameC)]
Document(hc) ==
    CASE hc = "scene" -> DocScene
      [] hc = "camera" -> DocSceneCamera
      [] OTHER -> DocEmpty

open_file(h, input, hc) ==
    handler_try("Open File", h,
        IF input.filepath \notin h.disk
        THEN Return(h, <<Lit("Error"), Lit(" ["), Lit("Open File"), Lit("]: "),
                         Lit("File not found: '"), Str(input.filepath), Lit("'")>>)
        ELSE IF hc = "raise" THEN HostFailure(h)
        ELSE LET doc == Document(hc)
             IN  Return([h EXCEPT !.objects = doc.objects,
                                  !.active_object = doc.active_object,
                                  !.materials = doc.materials,
                                  !.scene_camera = doc.scene_camera,
                                  !.render = doc.render,
                                  !.data_filepath = input.filepath],
                        Successfully(<<Lit(" opened Blender file '"), Str(input.filepath),
                            Lit("'")>>)))

get_scene_filepath(h, hc) ==
    handler_try("Get Scene Filepath", h,
        IF hc = "raise" THEN HostFailure(h)
        ELSE IF h.data_filepath # <<>>
        THEN Return(h, <<Lit("Current Blender file: "), Str(h.data_filepath)>>)
        ELSE Return(h, <<Lit("File not saved yet (unsaved file)")>>))

\* A faulty variant of clear_scene that deletes the selection as it is,
\* without selecting everything first.
clear_scene_selection_only(h, hc) ==
    handler_try("Clear Scene", h,
        LET count == Cardinality(DOMAIN h.objects)
        IN  IF count = 0
            THEN Return(h, <<Lit("Scene was already empty")>>)
            ELSE IF hc \in {"raise", "raise_delete"} THEN HostFailure(h)
            ELSE LET gone == {n \in DOMAIN h.objects : h.objects[n].selected}
                 IN  Return([h EXCEPT !.objects = [n \in (DOMAIN h.objects) \ gone |->
                                                     h.objects[n]],
                                      !.active_object = None,
                                      !.scene_camera = None],
                            Successfully(<<Lit(" cleared scene - removed "), Num(count),
                                Lit(" object(s)")>>)))

clear_scene(h, hc) ==
    handler_try("Clear Scene", h,
        LET count == Cardinality(DOMAIN h.objects)
        IN  IF count = 0
            THEN Return(h, <<Lit("Scene was already empty")>>)
            ELSE IF hc = "raise" THEN HostFailure(h)
            ELSE IF hc = "raise_delete"
            THEN HostFailure([h EXCEPT !.objects = SelectAll(h.objects)])
            ELSE LET selected == SelectAll(h.objects)
                     gone == {n \in DOMAIN selected : selected[n].selected}
                 IN  Return([h EXCEPT !.objects = [n \in (DOMAIN selected) \ gone |->
                                                     selected[n]],
                                      !.active_object = None,
                                      !.scene_camera = None],
                            Successfully(<<Lit(" cleared scene - removed "), Num(count),
                                Lit(" object(s)")>>)))

duplicate_object(h, input, hc) ==
    handler_try("Duplicate Object", h,
        IF input.name \notin DOMAIN h.objects
        THEN Return(h, NotFound("Object", input.name))
        ELSE LET h1 == [h EXCEPT !.objects = [DeselectAll(h.objects) EXCEPT
                                                 ![input.name].selected = TRUE],
                                 !.active_object = Some(input.name)]
             IN  IF hc = "raise" THEN HostFailure(h1)
                 ELSE LET copy == [h1.objects[input.name] EXCEPT
                                      !.location = IF IsNone(input.location) THEN @
                                                   ELSE input.location.some]
                          h2 == AddNamed(h1, input.new_name, copy)
                      IN  IF IsNone(h2.active_object)
                          THEN Return(h2, <<Lit("Error"), Lit(": "),
                                  Lit("Object duplicated but could not get reference")>>)
                          ELSE Return(h2, Successfully(<<Lit(" duplicated object '"),
                                  Str(input.name), Lit("' as '"), Str(input.new_name),
                                  Lit("'")>>)))

\* A faulty variant of set_active_camera without the check of the type.
set_active_camera_any_type(h, input, hc) ==
    handler_try("Set Active Camera", h,
        IF input.camera_name \notin DOMAIN h.objects
        THEN Return(h, NotFound("Camera", input.camera_name))
        ELSE Return([h EXCEPT !.scene_camera = Some(input.camera_name)],
                    <<Lit("Successfully"), Lit(" set '"), Str(input.camera_name),
                      Lit("' as active camera")>>))

set_active_camera(h, input, hc) ==
    handler_try("Set Active Camera", h,
        IF input.camera_name \notin DOMAIN h.objects
        THEN Return(h, NotFound("Camera", input.camera_name))
        ELSE IF h.objects[input.camera_name].type # "CAMERA"
        THEN Return(h, <<Lit("Error"), Lit(": "), Lit("Object"), Lit(" '"),
                         Str(input.camera_name), Lit("' is not a camera (type: "),
                         Lit(h.objects[input.camera_name].type), Lit(")")>>)
        ELSE Return([h EXCEPT !.scene_camera = Some(input.camera_name)],
                    <<Lit("Successfully"), Lit(" set '"), Str(input.camera_name),
                      Lit("' as active camera")>>))

create_cylinder(h, input, hc) ==
    handler_try("Create Cylinder", h,
        IF hc = "raise" THEN HostFailure(h)
        ELSE LET h1 == AddNamed(h, input.name,
                         Entity("MESH", input.location, Zero3,
                                MeshData("cylinder", [radius |-> input.radius,
                                                      depth |-> input.depth,
                                                      vertices |-> input.vertices])))
             IN  IF IsNone(h1.active_object)
                 THEN Return(h1, <<Lit("Error"), Lit(": "),
                         Lit("Cylinder created but could not get reference to object")>>)
                 ELSE Return(h1, Successfully(<<Lit(" created cylinder '"), Str(input.name),
                         Lit("' with radius "), Num(input.radius),
                         Lit(" and depth "), Num(input.depth),
                         Lit(" at location "), Vec(input.location)>>)))

create_plane(h, input, hc) ==
    handler_try("Create Plane", h,
        IF hc = "raise" THEN HostFailure(h)
        ELSE LET h1 == AddNamed(h, input.name,
                         Entity("MESH", input.location, Zero3,
                                MeshData("plane", [size |-> input.size])))
             IN  IF IsNone(h1.active_object)
                 THEN Return(h1, <<Lit("Error"), Lit(": "),
                         Lit("Plane created but could not get reference to object")>>)
                 ELSE Return(h1, Successfully(<<Lit(" created plane '"), Str(input.name),
                         Lit("' with size "), Num(input.size),
                         Lit(" at location "), Vec(input.location)>>)))

-----------------------------------------------------------------------------
(* The tools of tools.py: build the input model, call the handler, and     *)
(* turn any exception into "Error: <str(e)>".  calls counts the handler    *)
(* invocations of the call.                                                *)

Host ==
    [bpy |-> bpy_available, objects |-> objects, active_object |-> active_object,
     materials |-> materials, scene_camera |-> scene_camera, render |-> render,
     data_filepath |-> data_filepath, disk |-> disk, renders |-> renders]

ToolOutcome(o, calls, input) ==
    [kind |-> o.kind, h |-> o.h, calls |-> calls, input |-> input,
     text |-> IF o.kind = "return" THEN o.text ELSE <<>>]

\* try: input_model = <Model>(...); return <handler>(input_model)
\* except Exception as e: return f"Error: {str(e)}"
\* o is the outcome of the handler on the validated input; it is only
\* looked at when the input is valid.
tool_try(h, validated, o) ==
    IF ~validated.valid
    THEN ToolOutcome(Return(h, <<Lit("Error"), Lit(": ")>>
                                  \o ValidationErrorStr(validated.error)), 0, None)
    ELSE IF o.kind = "raise"
    THEN ToolOutcome(Return(o.h, <<Lit("Error"), Lit(": ")>> \o o.exc.msg), 1,
                     validated.input)
    ELSE ToolOutcome(o, 1, validated.input)

\* try: return <handler>()  except Exception as e: return f"Error: {str(e)}"
tool_try0(o) ==
    IF o.kind = "raise"
    THEN ToolOutcome(Return(o.h, <<Lit("Error"), Lit(": ")>> \o o.exc.msg), 1, None)
    ELSE ToolOutcome(o, 1, None)

\* return <handler>(), with no try around it
tool_plain0(o) == ToolOutcome(o, 1, None)

Succeeded(o) == o.kind = "return" /\ Len(o.text) >= 1 /\ IsLit(o.text[1], "Successfully")

\* The monitor of the sequence create_camera, set_active_camera (on the
\* camera just created), render_scene: stage 1, 2, 3 after each of them.
NextChain(tool, args, o) ==
    IF tool = "create_camera" /\ Succeeded(o)
    THEN [stage |-> 1, name |-> o.input.name]
    ELSE IF /\ tool = "set_active_camera" /\ Succeeded(o)
            /\ chain.stage = 1 /\ args.camera_name = chain.name
    THEN [stage |-> 2, name |-> chain.name]
    ELSE IF tool = "render_scene" /\ chain.stage = 2
    THEN [stage |-> 3, name |-> chain.name]
    ELSE [stage |-> 0, name |-> <<>>]

\* One tool call, from the transport's dispatch to the returned string.
Invoke(tool, args, hc, o) ==
    /\ phase = "serving"
    /\ remaining > 0
    /\ remaining' = remaining - 1
    /\ objects' = o.h.objects
    /\ active_object' = o.h.active_object
    /\ materials' = o.h.materials
    /\ scene_camera' = o.h.scene_camera
    /\ render' = o.h.render
    /\ data_filepath' = o.h.data_filepath
    /\ disk' = o.h.disk
    /\ renders' = o.h.renders
    /\ last' = [tool |-> tool, args |-> args, hc |-> hc, calls |-> o.calls,
                input |-> o.input, kind |-> o.kind, text |-> o.text,
                changed |-> (o.h # Host),
                before |-> [objects |-> DOMAIN objects, materials |-> DOMAIN materials,
                            scene_camera |-> scene_camera,
                            cameras |-> {n \in DOMAIN objects :
                                            objects[n].type = "CAMERA"},
                            selected |-> {n \in DOMAIN objects : objects[n].selected}]]
    /\ chain' = NextChain(tool, args, o)
    /\ UNCHANGED <<bpy_available, phase, wrapperVars, addonVars, scriptVars>>

Room == Cardinality(DOMAIN objects) < MaxObjects

create_cube_tool(a, hc) ==
    /\ Room
    /\ LET input_model == CreateCubeInput(a.name, a.size, a.location)
       IN  Invoke("create_cube", a, hc,
                  tool_try(Host, input_model, create_cube(Host, input_model.input, hc)))

create_sphere_tool(a, hc) ==
    /\ Room
    /\ LET input_model == CreateSphereInput(a.name, a.segments, a.ring_count, a.radius,
                                           a.calc_uvs, a.enter_editmode, a.align,
                                           a.location, a.rotation, a.scale)
       IN  Invoke("create_sphere", a, hc,
                  tool_try(Host, input_model, create_sphere(Host, input_model.input, hc)))

move_object_tool(a, hc) ==
    LET input_model == MoveObjectInput(a.name, a.location)
    IN  Invoke("move_object", a, hc,
               tool_try(Host, input_model, move_object(Host, input_model.input, hc)))

list_objects_tool(hc) ==
    Invoke("list_objects", <<>>, hc, tool_try0(list_objects(Host, hc)))

delete_object_tool(a, hc) ==
    LET input_model == DeleteObjectInput(a.name)
    IN  Invoke("delete_object", a, hc,
               tool_try(Host, input_model, delete_object(Host, input_model.input, hc)))

select_object_tool(a, hc) ==
    LET input_model == SelectObjectInput(a.name)
    IN  Invoke("select_object", a, hc,
               tool_try(Host, input_model, select_object(Host, input_model.input, hc)))

create_material_tool(a, hc) ==
    LET input_model == CreateMaterialInput(a.name, a.color)
    IN  Invoke("create_material", a, hc,
               tool_try(Host, input_model, create_material(Host, input_model.input, hc)))

assign_material_tool(a, hc) ==
    LET input_model == AssignMaterialInput(a.object_name, a.material_name)
    IN  Invoke("assign_material", a, hc,
               tool_try(Host, input_model, assign_material(Host, input_model.input, hc)))

rotate_object_tool(a, hc) ==
    LET input_model == RotateObjectInput(a.name, a.rotation)
    IN  Invoke("rotate_object", a, hc,
               tool_try(Host, input_model, rotate_object(Host, input_model.input, hc)))

scale_object_tool(a, hc) ==
    LET input_model == ScaleObjectInput(a.name, a.scale)
    IN  Invoke("scale_object", a, hc,
               tool_try(Host, input_model, scale_object(Host, input_model.input, hc)))

get_object_info_tool(a, hc) ==
    LET input_model == GetObjectInfoInput(a.name)
    IN  Invoke("get_object_info", a, hc,
               tool_try(Host, input_model, get_object_info(Host, input_model.input, hc)))

create_camera_tool(a, hc) ==
    /\ Room
    /\ LET input_model == CreateCameraInput(a.name, a.location, a.rotation)
       IN  Invoke("create_camera", a, hc,
                  tool_try(Host, input_model, create_camera(Host, input_model.input, hc)))

create_light_tool(a, hc) ==
    /\ Room
    /\ LET input_model == CreateLightInput(a.name, a.light_type, a.location, a.energy)
       IN  Invoke("create_light", a, hc,
                  tool_try(Host, input_model, create_light(Host, input_model.input, hc)))

render_scene_tool(a, hc) ==
    LET input_model == RenderSceneInput(a.filepath, a.resolution_x, a.resolution_y)
    IN  Invoke("render_scene", a, hc,
               tool_try(Host, input_model, render_scene(Host, input_model.input, hc)))

clear_scene_tool(hc) ==
    Invoke("clear_scene", <<>>, hc, tool_try0(clear_scene(Host, hc)))

duplicate_object_tool(a, hc) ==
    /\ Room
    /\ LET input_model == DuplicateObjectInput(a.name, a.new_name, a.location)
       IN  Invoke("duplicate_object", a, hc,
                  tool_try(Host, input_model, duplicate_object(Host, input_model.input, hc)))

set_active_camera_tool(a, hc) ==
    LET input_model == SetActiveCameraInput(a.camera_name)
    IN  Invoke("set_active_camera", a, hc,
               tool_try(Host, input_model, set_active_camera(Host, input_model.input, hc)))

create_cylinder_tool(a, hc) ==
    /\ Room
    /\ LET input_model == CreateCylinderInput(a.name, a.radius, a.depth, a.location,
                                             a.vertices)
       IN  Invoke("create_cylinder", a, hc,
                  tool_try(Host, input_model, create_cylinder(Host, input_model.input, hc)))

create_plane_tool(a, hc) ==
    /\ Room
    /\ LET input_model == CreatePlaneInput(a.name, a.size, a.location)
       IN  Invoke("create_plane", a, hc,
                  tool_try(Host, input_model, create_plane(Host, input_model.input, hc)))

get_scene_filepath_tool(hc) ==
    Invoke("get_scene_filepath", <<>>, hc, tool_plain0(get_scene_filepath(Host, hc)))

save_file_tool(a, hc) ==
    LET input_model == SaveFileInput(a.filepath)
    IN  Invoke("save_file", a, hc,
               tool_try(Host, input_model, save_file(Host, input_model.input, hc)))

open_file_tool(a, hc) ==
    LET input_model == OpenFileInput(a.filepath)
    IN  Invoke("open_file", a, hc,
               tool_try(Host, input_model, open_file(Host, input_model.input, hc)))

-----------------------------------------------------------------------------
(* Start-up.  blender_mcp_server.py imports src.server, which imports      *)
(* tools.py, which imports operations.py, whose first statement is         *)
(* "import bpy": without bpy the import raises ImportError, the tools are  *)
(* never registered and the process exits.                                 *)

import_operations(bpy) == bpy

ImportServer ==
    /\ phase = "boot"
    /\ phase' = IF import_operations(bpy_available) THEN "serving" ELSE "failed"
    /\ UNCHANGED <<bpy_available, hostVars, remaining, last, chain, wrapperVars, addonVars, scriptVars>>

-----------------------------------------------------------------------------
(* The arguments the model calls the tools with. *)

PngPath == <<"/","o",".","p","n","g">>
PngPathUpper == <<"/","o",".","P","N","G">>
GifPath == <<"/","o",".","g","i","f">>
BlendOnDisk == <<"/","s",".","b","l","e","n","d">>
BlendNew == <<"/","n",".","b","l","e","n","d">>
BlendPadded == <<" ">> \o BlendOnDisk
TxtPath == <<"/","s",".","t","x","t">>

L == LocationLimit
R == RotationLimit

\* base, and base with one field replaced by one of its alternatives
Singles(base, alts) ==
    {base} \cup UNION {{[base EXCEPT ![f] = v] : v \in alts[f]} : f \in DOMAIN alts}
\* base with two different fields replaced
Doubles(base, alts) ==
    UNION {UNION {{[base EXCEPT ![f] = v, ![g] = w] : v \in alts[f], w \in alts[g]}
                  : g \in (DOMAIN alts) \ {f}} : f \in DOMAIN alts}
\* base with every field that has a bad value replaced by one
AllBad(base, bad) ==
    [f \in DOMAIN base |-> IF f \in DOMAIN bad THEN CHOOSE v \in bad[f] : TRUE
                                                ELSE base[f]]
Requests(base, alts, bad) ==
    Singles(base, alts) \cup Doubles(base, bad) \cup {AllBad(base, bad)}

NamesKnown == {NameA, NameB, NameC}
NameAlts ==
    {NameA, NameC, <<" ","B"," ">>, <<" ">>, <<>>, Rep("x", NameMaxLen),
     Rep("x", NameMaxLen + 1)}
    \cup {<<"B", invalid_chars[i]>> : i \in DOMAIN invalid_chars}
NameBad == {<<"B","/">>, <<>>}
SizeAlts == {0 - 100000, 0, SizeGt, SizeGt + 1, SizeLe, SizeLe + 1}
SizeBad == {SizeGt}
LocAlts == {<<L, 0, 0 - L>>, <<L + 1, 0, 0>>, <<0, 0 - L - 1, 0>>, <<0, 0, L + 1>>}
LocBad == {<<L + 1, 0, 0>>}
RotAlts == {<<R, 0 - R, 0>>, <<R + 1, 0, 0>>, <<0, 0 - R - 1, 0>>, <<0, 0, R + 1>>,
            <<L, 0, 0>>, <<0, L + 1, 0>>}
RotBad == {<<0, L + 1, 0>>}
ScaleAlts == {Zero3, <<ScaleLe, 1, 1>>, <<ScaleLe + 1, 1, 1>>, <<1, 0 - 1, 1>>}
EnergyAlts == {0 - 1, 0, EnergyLe, EnergyLe + 1}
ResAlts == {0 - 1, 0, ResolutionGe, ResolutionLe, ResolutionLe + 1}
IntAlts == {2, SegmentsGe, SegmentsLe, SegmentsLe + 1}
AlignAlts == {VIEW, CURSOR, lower(WORLD), <<"V","i","e","w">>, <<"L","O","C","A","L">>}
LightAlts == {POINT, SPOT, AREA, lower(SUN), <<"S","p","o","t">>, <<"L","A","M","P">>}

CubeBase == [name |-> NameB, size |-> 200000, location |-> Zero3]
SphereBase ==
    [name |-> NameB, segments |-> 32, ring_count |-> 16, radius |-> 100000,
     calc_uvs |-> TRUE, enter_editmode |-> FALSE, align |-> WORLD,
     location |-> Zero3, rotation |-> Zero3, scale |-> One3]
MoveBase == [name |-> NameA, location |-> <<100000, 200000, 300000>>]
NameBase == [name |-> NameA]
MaterialBase == [name |-> NameA, color |-> <<100000, 0, 0>>]
AssignBase == [object_name |-> NameA, material_name |-> NameA]
RotateBase == [name |-> NameA, rotation |-> <<0, 0, 157080>>]
ScaleBase == [name |-> NameA, scale |-> <<200000, 200000, 200000>>]
CameraBase == [name |-> NameB, location |-> <<0, 0, 500000>>, rotation |-> Zero3]
LightBase == [name |-> NameB, light_type |-> SUN, location |-> <<0, 0, 1000000>>,
              energy |-> 100000]
RenderBase == [filepath |-> PngPath, resolution_x |-> 1920, resolution_y |-> 1080]
CylinderBase == [name |-> NameB, radius |-> 100000, depth |-> 200000,
                 location |-> Zero3, vertices |-> 32]
DuplicateBase == [name |-> NameA, new_name |-> NameB, location |-> None]
CameraNameBase == [camera_name |-> NameC]
SaveBase == [filepath |-> BlendNew]
OpenBase == [filepath |-> BlendOnDisk]

\* The requests of the specification of call sequences (few per tool).
CubeArgs == Singles(CubeBase, [name |-> {NameA}])
SphereArgs == Singles(SphereBase, [rotation |-> {<<R + 1, 0, 0>>}])
MoveArgs == Singles(MoveBase, [name |-> {NameB}, location |-> LocBad])
DeleteArgs == Singles(NameBase, [name |-> {NameB, NameC}])
SelectArgs == Singles(NameBase, [name |-> {NameB, NameC}])
MaterialArgs == Singles(MaterialBase, [name |-> {NameB}])
AssignArgs == Singles(AssignBase, [object_name |-> {NameB, NameC},
                                    material_name |-> {NameB}])
RotateArgs == Singles(RotateBase, [name |-> {NameB}, rotation |-> {<<R + 1, 0, 0>>}])
ScaleArgs == Singles(ScaleBase, [name |-> {NameB}, scale |-> {Zero3}])
InfoArgs == Singles(NameBase, [name |-> {NameB}])
CameraArgs == Singles(CameraBase, [name |-> {NameC}])
LightArgs == Singles(LightBase, [light_type |-> {<<"S","p","o","t">>}])
RenderArgs == Singles(RenderBase, [filepath |-> {GifPath}, resolution_x |-> {1}])
CylinderArgs == Singles(CylinderBase, [depth |-> {SizeGt}])
PlaneArgs == Singles(CubeBase, [size |-> {SizeLe + 1}])
DuplicateArgs == Singles(DuplicateBase, [name |-> {NameB}, new_name |-> {NameA},
                                          location |-> {Some(<<L, 0, 0>>)}])
CameraNameArgs == Singles(CameraNameBase, [camera_name |-> {NameA, NameB}])
SaveArgs == Singles(SaveBase, [filepath |-> {TxtPath}])
OpenArgs == Singles(OpenBase, [filepath |-> {BlendNew}])

Ops == {"ok", "raise"}

-----------------------------------------------------------------------------
(* The specification of call sequences *)

NoCall ==
    [tool |-> "none", args |-> <<>>, hc |-> "ok", calls |-> 0, input |-> None,
     kind |-> "return", text |-> <<>>, changed |-> FALSE,
     before |-> [objects |-> {}, materials |-> {}, scene_camera |-> None,
                 cameras |-> {}, selected |-> {}]]

\* The wrapper after the threads were started, for a child that writes `out`.
\* The add-on module as imported: blender_mcp_addon.py lines 18 and 20; the
\* scene property has its default and no class is registered.
AddonNotLoaded ==
    /\ mcp_server_thread = None
    /\ mcp_server_stop_flag = FALSE
    /\ threads = <<>>
    /\ mcp_server_running = FALSE
    /\ operator = [pc |-> "unregistered", report |-> None, timed_out |-> FALSE]

\* The interpreter before blender_mcp_server.py runs: sys.stdout is the
\* process's standard output, no stream object has an instance attribute
\* "write", print is the built-in.
ScriptNotStarted ==
    /\ sys_stdout = "stdout"
    /\ write_attr = [stdout |-> None, stderr |-> None]
    /\ builtins_print = "print"
    /\ script = [pc |-> "start", _original_stdout |-> None,
                 _original_print |-> None, _original_stdout_write |-> None,
                 _original_stderr_write |-> None]
    /\ fd_stdout = <<>>
    /\ fd_stderr = <<>>

Popen(out) ==
    /\ child_stdout = out
    /\ read_pos = 0
    /\ process = "running"
    /\ returncode = None
    /\ buffer = <<>>
    /\ written = <<>>
    /\ stdout_thread = "running"
    /\ stderr_thread = "running"
    /\ main = [pc |-> "wait", waited |-> 0, longest |-> 0, exit_code |-> None,
               status |-> None]

InitHost(budget) ==
    /\ bpy_available \in BOOLEAN
    /\ phase = "boot"
    /\ \E doc \in {DocEmpty, DocScene, DocSceneCamera} :
          /\ objects = doc.objects
          /\ active_object = doc.active_object
          /\ materials = doc.materials
          /\ scene_camera = doc.scene_camera
          /\ render = doc.render
    /\ data_filepath = <<>>
    /\ disk = {BlendOnDisk}
    /\ renders = 0
    /\ remaining = budget
    /\ last = NoCall
    /\ chain = [stage |-> 0, name |-> <<>>]
    /\ Popen(<<>>)
    /\ AddonNotLoaded
    /\ ScriptNotStarted

Init == InitHost(MaxCalls)

Next ==
    \/ ImportServer
    \/ \E a \in CubeArgs, hc \in Ops : create_cube_tool(a, hc)
    \/ \E a \in SphereArgs, hc \in {"ok"} : create_sphere_tool(a, hc)
    \/ \E a \in MoveArgs, hc \in Ops : move_object_tool(a, hc)
    \/ \E hc \in {"ok"} : list_objects_tool(hc)
    \/ \E a \in DeleteArgs, hc \in {"ok"} : delete_object_tool(a, hc)
    \/ \E a \in SelectArgs, hc \in {"ok"} : select_object_tool(a, hc)
    \/ \E a \in MaterialArgs, hc \in {"ok", "nodes"} : create_material_tool(a, hc)
    \/ \E a \in AssignArgs, hc \in {"ok"} : assign_material_tool(a, hc)
    \/ \E a \in RotateArgs, hc \in {"ok"} : rotate_object_tool(a, hc)
    \/ \E a \in ScaleArgs, hc \in {"ok"} : scale_object_tool(a, hc)
    \/ \E a \in InfoArgs, hc \in {"ok"} : get_object_info_tool(a, hc)
    \/ \E a \in CameraArgs, hc \in {"ok", "scene"} : create_camera_tool(a, hc)
    \/ \E a \in LightArgs, hc \in {"ok"} : create_light_tool(a, hc)
    \/ \E a \in RenderArgs, hc \in Ops : render_scene_tool(a, hc)
    \/ \E hc \in Ops \cup {"raise_delete"} : clear_scene_tool(hc)
    \/ \E a \in DuplicateArgs, hc \in Ops : duplicate_object_tool(a, hc)
    \/ \E a \in CameraNameArgs, hc \in {"ok"} : set_active_camera_tool(a, hc)
    \/ \E a \in CylinderArgs, hc \in {"ok"} : create_cylinder_tool(a, hc)
    \/ \E a \in PlaneArgs, hc \in {"ok"} : create_plane_tool(a, hc)
    \/ \E hc \in {"ok"} : get_scene_filepath_tool(hc)
    \/ \E a \in SaveArgs, hc \in Ops : save_file_tool(a, hc)
    \/ \E a \in OpenArgs, hc \in Ops \cup {"scene", "camera"} : open_file_tool(a, hc)

Spec == Init /\ [][Next]_vars

-----------------------------------------------------------------------------
(* The specification of single calls: every tool, with arguments on and    *)
(* around every bound of its input model, one or two fields at a time.     *)

RadiusAlts == {0 - 1, 0, SizeGt, SizeGt + 1, SizeLe, SizeLe + 1}
ColorAlts == {Zero3, <<ColorMax, ColorMax, ColorMax>>, <<ColorMax + 1, 0, 0>>,
              <<0, 0 - 1, 0>>}
PathAlts == {PngPathUpper, GifPath, <<>>, <<".","e","x","r">>, BlendOnDisk}
BlendAlts == {BlendNew, BlendOnDisk, BlendPadded, TxtPath, <<>>, upper(BlendOnDisk)}

CubeArgsV ==
    Requests(CubeBase,
             [name |-> NameAlts, size |-> SizeAlts, location |-> LocAlts],
             [name |-> NameBad, size |-> SizeBad, location |-> LocBad])
SphereArgsV ==
    Requests(SphereBase,
             [name |-> NameAlts, segments |-> IntAlts, ring_count |-> IntAlts,
              radius |-> RadiusAlts, calc_uvs |-> {FALSE}, enter_editmode |-> {TRUE},
              align |-> AlignAlts, location |-> LocAlts, rotation |-> RotAlts,
              scale |-> ScaleAlts],
             [name |-> NameBad, segments |-> {2}, radius |-> {0 - 1},
              align |-> {lower(WORLD)}, location |-> LocBad, rotation |-> RotBad,
              scale |-> {<<1, 0 - 1, 1>>}])
MoveArgsV ==
    Requests(MoveBase, [name |-> NameAlts, location |-> LocAlts],
             [name |-> {<<>>}, location |-> LocBad])
NameArgsV == Singles(NameBase, [name |-> NameAlts])
MaterialArgsV ==
    Requests(MaterialBase, [name |-> NameAlts, color |-> ColorAlts],
             [name |-> {<<>>}, color |-> {<<ColorMax + 1, 0, 0>>}])
AssignArgsV ==
    Requests(AssignBase, [object_name |-> NameAlts, material_name |-> NameAlts],
             [object_name |-> {<<>>}, material_name |-> {Rep("x", NameMaxLen + 1)}])
RotateArgsV ==
    Requests(RotateBase, [name |-> NameAlts, rotation |-> RotAlts],
             [name |-> {<<>>}, rotation |-> {<<R + 1, 0, 0>>}])
ScaleArgsV ==
    Requests(ScaleBase, [name |-> NameAlts, scale |-> ScaleAlts],
             [name |-> {<<>>}, scale |-> {Zero3}])
CameraArgsV ==
    Requests(CameraBase, [name |-> NameAlts, location |-> LocAlts, rotation |-> RotAlts],
             [name |-> NameBad, location |-> LocBad])
LightArgsV ==
    Requests(LightBase,
             [name |-> NameAlts, light_type |-> LightAlts, location |-> LocAlts,
              energy |-> EnergyAlts],
             [name |-> NameBad, light_type |-> {<<"L","A","M","P">>},
              location |-> LocBad, energy |-> {0 - 1}])
RenderArgsV ==
    Requests(RenderBase,
             [filepath |-> PathAlts, resolution_x |-> ResAlts, resolution_y |-> ResAlts],
             [filepath |-> {GifPath}, resolution_x |-> {0},
              resolution_y |-> {ResolutionLe + 1}])
CylinderArgsV ==
    Requests(CylinderBase,
             [name |-> NameAlts, radius |-> SizeAlts, depth |-> SizeAlts,
              location |-> LocAlts, vertices |-> {2, SegmentsGe, VerticesLe, VerticesLe + 1}],
             [name |-> NameBad, radius |-> SizeBad, depth |-> {SizeLe + 1},
              location |-> LocBad, vertices |-> {2}])
DuplicateArgsV ==
    Requests(DuplicateBase,
             [name |-> NameAlts, new_name |-> NameAlts,
              location |-> {Some(v) : v \in LocAlts}],
             [name |-> {<<>>}, new_name |-> NameBad, location |-> {Some(v) : v \in LocBad}])
CameraNameArgsV == Singles(CameraNameBase, [camera_name |-> NameAlts])
SaveArgsV == Singles(SaveBase, [filepath |-> BlendAlts])
OpenArgsV == Singles(OpenBase, [filepath |-> BlendAlts])

InitV == InitHost(MaxCallsV)

NextV ==
    \/ ImportServer
    \/ \E a \in CubeArgsV, hc \in Ops : create_cube_tool(a, hc)
    \/ \E a \in SphereArgsV, hc \in Ops : create_sphere_tool(a, hc)
    \/ \E a \in MoveArgsV, hc \in Ops : move_object_tool(a, hc)
    \/ \E hc \in {"ok"} : list_objects_tool(hc)
    \/ \E a \in NameArgsV, hc \in Ops : delete_object_tool(a, hc)
    \/ \E a \in NameArgsV, hc \in Ops : select_object_tool(a, hc)
    \/ \E a \in MaterialArgsV, hc \in Ops \cup {"nodes"} : create_material_tool(a, hc)
    \/ \E a \in AssignArgsV, hc \in {"ok"} : assign_material_tool(a, hc)
    \/ \E a \in RotateArgsV, hc \in {"ok"} : rotate_object_tool(a, hc)
    \/ \E a \in ScaleArgsV, hc \in {"ok"} : scale_object_tool(a, hc)
    \/ \E a \in NameArgsV, hc \in {"ok"} : get_object_info_tool(a, hc)
    \/ \E a \in CameraArgsV, hc \in Ops \cup {"scene"} : create_camera_tool(a, hc)
    \/ \E a \in LightArgsV, hc \in Ops : create_light_tool(a, hc)
    \/ \E a \in RenderArgsV, hc \in Ops : render_scene_tool(a, hc)
    \/ \E hc \in Ops \cup {"raise_delete"} : clear_scene_tool(hc)
    \/ \E a \in DuplicateArgsV, hc \in Ops : duplicate_object_tool(a, hc)
    \/ \E a \in CameraNameArgsV, hc \in {"ok"} : set_active_camera_tool(a, hc)
    \/ \E a \in CylinderArgsV, hc \in Ops : create_cylinder_tool(a, hc)
    \/ \E a \in CubeArgsV, hc \in Ops : create_plane_tool(a, hc)
    \/ \E hc \in Ops : get_scene_filepath_tool(hc)
    \/ \E a \in SaveArgsV, hc \in Ops : save_file_tool(a, hc)
    \/ \E a \in OpenArgsV, hc \in Ops \cup {"scene", "camera"} : open_file_tool(a, hc)

SpecV == InitV /\ [][NextV]_vars

-----------------------------------------------------------------------------
(* The wrapper: src/blender_mcp_filter.py                                  *)

MaxStreamLen == 4
MaxLines == 2
MaxRun == 26

ReadSize == 4096
NoiseLimit == 1000
BufferLimit == 100000
JoinTimeout == 2

\* len() of a byte string or of a text: "X" and "Y" are runs.
RunLength(c) == IF c = "X" THEN 600 ELSE IF c = "Y" THEN 4000 ELSE 1

RECURSIVE Bytes(_)
Bytes(b) == IF b = <<>> THEN 0 ELSE RunLength(Head(b)) + Bytes(Tail(b))

\* bytes.decode('utf-8', errors='ignore') and str.encode('utf-8').
RECURSIVE decode(_)
decode(b) ==
    IF b = <<>> THEN <<>>
    ELSE IF Len(b) >= 2 /\ b[1] = "C3" /\ b[2] = "A9"
    THEN <<"U+E9">> \o decode(SubSeq(b, 3, Len(b)))
    ELSE IF Head(b) \in {"C3", "A9"} THEN decode(Tail(b))
    ELSE <<Head(b)>> \o decode(Tail(b))

RECURSIVE encode(_)
encode(text) ==
    IF text = <<>> THEN <<>>
    ELSE (IF Head(text) = "U+E9" THEN <<"C3", "A9">> ELSE <<Head(text)>>) \o encode(Tail(text))

\* del buffer[:n]: the buffer without its first n bytes.
RECURSIVE del_prefix(_, _)
del_prefix(b, n) ==
    IF n <= 0 \/ b = <<>> THEN b
    ELSE IF n >= RunLength(Head(b)) THEN del_prefix(Tail(b), n - RunLength(Head(b)))
    ELSE Rep("x", RunLength(Head(b)) - n) \o Tail(b)

\* str.find(c): the first position of c (from 1), 0 where Python gives -1.
find(text, c) ==
    IF contains(text, c)
    THEN CHOOSE i \in DOMAIN text : text[i] = c /\ \A j \in 1..(i - 1) : text[j] # c
    ELSE 0

startswith_json(text) == text # <<>> /\ text[1] \in {"{", "["}

\* json.loads: the scanner skips white space between the tokens; parse_value
\* gives the position after the value that starts at i, 0 for JSONDecodeError.
RECURSIVE skip_whitespace(_, _)
skip_whitespace(s, i) ==
    IF i <= Len(s) /\ s[i] \in Whitespace THEN skip_whitespace(s, i + 1) ELSE i

RECURSIVE skip_letters(_, _)
skip_letters(s, i) == IF i <= Len(s) /\ s[i] \in {"U+E9", "Y"} THEN skip_letters(s, i + 1) ELSE i

RECURSIVE parse_value(_, _)
RECURSIVE parse_array(_, _, _)
RECURSIVE parse_object(_, _, _)
parse_value(s, i) ==
    LET j == skip_whitespace(s, i)
    IN  IF j > Len(s) THEN 0
        ELSE IF s[j] = "1" THEN j + 1
        ELSE IF s[j] \in {"U+E9", "Y"} THEN skip_letters(s, j)
        ELSE IF s[j] = "[" THEN parse_array(s, j + 1, TRUE)
        ELSE IF s[j] = "{" THEN parse_object(s, j + 1, TRUE)
        ELSE 0

parse_array(s, i, first) ==
    LET j == skip_whitespace(s, i)
    IN  IF j > Len(s) THEN 0
        ELSE IF first /\ s[j] = "]" THEN j + 1
        ELSE LET e == parse_value(s, j)
                 k == skip_whitespace(s, e)
             IN  IF e = 0 \/ k > Len(s) THEN 0
                 ELSE IF s[k] = "," THEN parse_array(s, k + 1, FALSE)
                 ELSE IF s[k] = "]" THEN k + 1
                 ELSE 0

parse_object(s, i, first) ==
    LET j == skip_whitespace(s, i)
    IN  IF j > Len(s) THEN 0
        ELSE IF first /\ s[j] = "}" THEN j + 1
        ELSE IF s[j] # "k" THEN 0
        ELSE LET e == parse_value(s, j + 1)
                 k == skip_whitespace(s, e)
             IN  IF e = 0 \/ k > Len(s) THEN 0
                 ELSE IF s[k] = "," THEN parse_object(s, k + 1, FALSE)
                 ELSE IF s[k] = "}" THEN k + 1
                 ELSE 0

\* TRUE when json.loads(s) returns, FALSE when it raises JSONDecodeError.
json_loads(s) ==
    LET e == parse_value(s, 1)
    IN  e # 0 /\ skip_whitespace(s, e) = Len(s) + 1

\* _extract_json_from_buffer where the text holds neither "{" nor "[".
no_json_start_keeps(b) == b

no_json_start(b) == IF Bytes(b) > NoiseLimit THEN <<>> ELSE b

\* _extract_json_from_buffer where no parse succeeded: "keep buffering".
incomplete_clears(b) == <<>>

incomplete(b) == b

\* The JSON start _extract_json_from_buffer finds in the decoded text: the
\* first "{", or the first "[" when the text holds no "{"; 0 for none.
json_start(decoded) ==
    LET brace == find(decoded, "{")
    IN  IF brace = 0 THEN find(decoded, "[") ELSE brace

\* The buffer after "del buffer[:start_idx]" for the JSON start `found`.
without_preamble(b, found) == del_prefix(b, Bytes(SubSeq(decode(b), 1, found - 1)))

\* _extract_json_from_buffer(buffer), with w the units written so far; the
\* result is the buffer it leaves and the units written when it returns.
RECURSIVE _extract_json_from_buffer(_, _)
_extract_json_from_buffer(b, w) ==
    IF b = <<>> THEN [buffer |-> b, written |-> w]
    ELSE
    LET decoded == decode(b)
        found == json_start(decoded)
    IN  IF found = 0 THEN [buffer |-> no_json_start(b), written |-> w]
        ELSE
        LET b1 == without_preamble(b, found)
            text == SubSeq(decoded, found, Len(decoded))
            newline == find(text, "\n")
            line == strip(SubSeq(text, 1, newline - 1))
            whole == strip(text)
        IN  IF newline # 0 /\ startswith_json(line) /\ json_loads(line)
            THEN _extract_json_from_buffer(
                     del_prefix(b1, Bytes(SubSeq(text, 1, newline))),
                     Append(w, encode(line) \o <<"\n">>))
            ELSE IF startswith_json(whole) /\ json_loads(whole)
            THEN [buffer |-> <<>>, written |-> Append(w, encode(whole))]
            ELSE [buffer |-> incomplete(b1), written |-> w]

\* filter_stdout at the child's exit: the units the last attempt writes.
remaining_json(b) ==
    LET text == strip(decode(b))
    IN  IF b # <<>> /\ startswith_json(text) /\ json_loads(text) THEN <<b>> ELSE <<>>

\* filter_stdout after the extraction: "Prevent buffer from growing too large".
buffer_cap_keeps(b) == b

buffer_cap(b) == IF Bytes(b) > BufferLimit THEN <<>> ELSE b

Alive == main.pc # "exited"

\* One iteration of filter_stdout's loop in which read(4096) returns n bytes.
filter_stdout_data(n) ==
    /\ Alive
    /\ stdout_thread = "running"
    /\ n >= 1
    /\ read_pos + n <= Len(child_stdout)
    /\ LET data == SubSeq(child_stdout, read_pos + 1, read_pos + n)
           e == _extract_json_from_buffer(buffer \o data, written)
       IN  /\ Bytes(data) <= ReadSize
           /\ buffer' = buffer_cap(e.buffer)
           /\ written' = e.written
    /\ read_pos' = read_pos + n
    /\ UNCHANGED <<toolVars, addonVars, scriptVars, child_stdout, process, returncode, stdout_thread,
                   stderr_thread, main>>

\* read returns b'' (the child closed its stdout) and the child is alive.
filter_stdout_poll ==
    /\ Alive
    /\ stdout_thread = "running"
    /\ read_pos = Len(child_stdout)
    /\ process = "stdout_closed"
    /\ LET e == _extract_json_from_buffer(buffer, written)
       IN  /\ buffer' = e.buffer
           /\ written' = e.written
    /\ UNCHANGED <<toolVars, addonVars, scriptVars, child_stdout, read_pos, process, returncode,
                   stdout_thread, stderr_thread, main>>

\* read returns b'' and process.poll() is not None: last attempt, then break.
filter_stdout_break ==
    /\ Alive
    /\ stdout_thread = "running"
    /\ read_pos = Len(child_stdout)
    /\ process = "exited"
    /\ written' = written \o remaining_json(buffer)
    /\ stdout_thread' = "done"
    /\ UNCHANGED <<toolVars, addonVars, scriptVars, child_stdout, read_pos, process, returncode, buffer,
                   stderr_thread, main>>

\* forward_stderr leaves its loop once the child has exited.
forward_stderr ==
    /\ Alive
    /\ stderr_thread = "running"
    /\ process = "exited"
    /\ stderr_thread' = "done"
    /\ UNCHANGED <<toolVars, addonVars, scriptVars, readerVars, process, returncode, main>>

\* The child (Blender running the server script).
child_closes_stdout ==
    /\ process = "running"
    /\ process' = "stdout_closed"
    /\ UNCHANGED <<toolVars, addonVars, scriptVars, readerVars, returncode, stderr_thread, main>>

child_exits(code) ==
    /\ process # "exited"
    /\ process' = "exited"
    /\ returncode' = Some(code)
    /\ UNCHANGED <<toolVars, addonVars, scriptVars, readerVars, stderr_thread, main>>

\* The main thread.
process_wait ==
    /\ main.pc = "wait"
    /\ process = "exited"
    /\ main' = [main EXCEPT !.pc = "join_stdout", !.exit_code = returncode]
    /\ UNCHANGED <<toolVars, addonVars, scriptVars, readerVars, process, returncode, stderr_thread>>

\* Thread.join without a timeout.
join_forever(thread, waited) == [returned |-> thread = "done", waited |-> waited]

\* Thread.join(timeout=2) after `waited` seconds of waiting.
join(thread, waited) ==
    IF thread = "done" \/ waited >= JoinTimeout
    THEN [returned |-> TRUE, waited |-> waited]
    ELSE [returned |-> FALSE, waited |-> waited + 1]

join_stdout ==
    /\ main.pc = "join_stdout"
    /\ LET j == join(stdout_thread, main.waited)
       IN  main' = IF j.returned
                   THEN [main EXCEPT !.pc = "join_stderr", !.waited = 0,
                                     !.longest = IF j.waited > @ THEN j.waited ELSE @]
                   ELSE [main EXCEPT !.waited = j.waited]
    /\ UNCHANGED <<toolVars, addonVars, scriptVars, readerVars, process, returncode, stderr_thread>>

join_stderr ==
    /\ main.pc = "join_stderr"
    /\ LET j == join(stderr_thread, main.waited)
       IN  main' = IF j.returned
                   THEN [main EXCEPT !.pc = "sys_exit", !.waited = 0,
                                     !.longest = IF j.waited > @ THEN j.waited ELSE @]
                   ELSE [main EXCEPT !.waited = j.waited]
    /\ UNCHANGED <<toolVars, addonVars, scriptVars, readerVars, process, returncode, stderr_thread>>

\* The status of a process that ends by sys.exit(code): the low byte of an
\* integer code, 0 for None.
exit_status(code) == IF code = None THEN Some(0) ELSE Some(code.some % 256)

sys_exit ==
    /\ main.pc = "sys_exit"
    /\ main' = [main EXCEPT !.pc = "exited", !.status = exit_status(main.exit_code)]
    /\ UNCHANGED <<toolVars, addonVars, scriptVars, readerVars, process, returncode, stderr_thread>>

main_thread == process_wait \/ join_stdout \/ join_stderr \/ sys_exit

-----------------------------------------------------------------------------
(* The child outputs the model runs the wrapper on. *)

Seqs(S, n) == UNION {[1..m -> S] : m \in 0..n}

RECURSIVE Flatten(_)
Flatten(ss) == IF ss = <<>> THEN <<>> ELSE Head(ss) \o Flatten(Tail(ss))

TextLines == {<<>>, <<"x">>, <<"X">>, <<"x", "]">>, <<"C3", "A9">>}
JsonLines == {<<"{", "}">>, <<"{", "k", "1", "}">>, <<"{", "k", "C3", "A9", "}">>,
              <<"{", "k", "[", "{", "}", "]", "}">>}
Terminated(ls) == [i \in DOMAIN ls |-> ls[i] \o <<"\n">>]

LineStreams == {Flatten(Terminated(ls)) : ls \in Seqs(TextLines \cup JsonLines, MaxLines)}
NoiseStreams == Seqs({"x", "X", " ", "\n"}, MaxStreamLen)
AnyStreams == Seqs({"{", "}", "[", "]", "\n", " ", "x", "C3"}, MaxStreamLen)
ArrayStreams ==
    {pre \o <<"[", "{", "}", "]">> \o post :
        pre \in {<<>>, <<"x">>, <<"C3">>, <<"C3", "A9">>},
        post \in {<<>>, <<"\n">>, <<" ">>, <<"\n", "\n">>}}
\* One object line that holds a string of 24 or of MaxRun runs of letters:
\* 96,004 bytes, and more than 100,000.
BigFrames == {<<"{", "k">> \o Rep("Y", n) \o <<"}", "\n">> : n \in {24, MaxRun}}
\* An object line with a string of four two-byte characters, then a second
\* object line; a text of three two-byte characters, then an object line.
Utf8Frames ==
    {<<"{", "k", "C3", "A9", "C3", "A9", "C3", "A9", "C3", "A9", ",", "k", "{", "}", "}", "\n",
       "{", "}", "\n">>,
     <<"C3", "A9", "C3", "A9", "C3", "A9", "\n", "{", "}", "\n">>}
\* A line of diagnostic text that holds a brace, then an object line.
BracedTextFrames ==
    {<<"x", "{", "\n", "{", "}", "\n">>, <<"{", "x", "}", "\n", "{", "}", "\n">>}
Streams ==
    LineStreams \cup NoiseStreams \cup AnyStreams \cup ArrayStreams \cup BigFrames
        \cup Utf8Frames \cup BracedTextFrames

ReturnCodes == {0, 1, -15}

ToolsIdle ==
    /\ bpy_available = TRUE
    /\ phase = "boot"
    /\ objects = DocEmpty.objects
    /\ active_object = DocEmpty.active_object
    /\ materials = DocEmpty.materials
    /\ scene_camera = DocEmpty.scene_camera
    /\ render = DocEmpty.render
    /\ data_filepath = <<>>
    /\ disk = {BlendOnDisk}
    /\ renders = 0
    /\ remaining = 0
    /\ last = NoCall
    /\ chain = [stage |-> 0, name |-> <<>>]

InitF == ToolsIdle /\ AddonNotLoaded /\ ScriptNotStarted /\ \E out \in Streams : Popen(out)

NextF ==
    \/ \E n \in 1..(Len(child_stdout) - read_pos) : filter_stdout_data(n)
    \/ filter_stdout_poll
    \/ filter_stdout_break
    \/ child_closes_stdout
    \/ \E code \in {0} : child_exits(code)

SpecF == InitF /\ [][NextF]_vars

WrapperStreams == {Flatten(Terminated(ls)) : ls \in Seqs({<<"x">>, <<"{", "}">>}, MaxLines)}

InitW ==
    /\ ToolsIdle /\ AddonNotLoaded /\ ScriptNotStarted
    /\ \E out \in WrapperStreams : Popen(out)

NextW ==
    \/ \E n \in 1..(Len(child_stdout) - read_pos) : filter_stdout_data(n)
    \/ filter_stdout_poll
    \/ filter_stdout_break
    \/ forward_stderr
    \/ child_closes_stdout
    \/ \E code \in ReturnCodes : child_exits(code)
    \/ process_wait
    \/ join_stdout
    \/ join_stderr
    \/ sys_exit

SpecW == InitW /\ [][NextW]_vars /\ WF_vars(main_thread)

-----------------------------------------------------------------------------
(* The add-on (src/blender_mcp_addon.py).  The operators and unregister()  *)
(* run on Blender's main thread, one at a time; the worker threads run     *)
(* run_mcp_server concurrently.  A thread is its index in "threads".       *)
(* join(timeout=2) is a step of its own: it returns when the thread it     *)
(* waits for has ended or when the two seconds are over, so the worker may *)
(* end, or not, between the step that sets the flag and the step after the *)
(* join.                                                                   *)

MaxThreads == 3

is_alive(thread) == thread # None /\ threads[thread.some] = "running"

AliveWorkers == {t \in DOMAIN threads : threads[t] = "running"}

register ==
    /\ operator.pc = "unregistered"
    /\ operator' = [pc |-> "idle", report |-> None, timed_out |-> FALSE]
    /\ UNCHANGED <<mcp_server_thread, mcp_server_stop_flag, threads,
                   mcp_server_running>>
    /\ UNCHANGED <<toolVars, wrapperVars, scriptVars>>

\* The worker's function: its only blocking call is run(), and it ends when
\* run() returns or raises (or when the import raises).  Nothing in it, nor in
\* src/server.py, reads mcp_server_stop_flag.
run_mcp_server(t) ==
    /\ t \in DOMAIN threads
    /\ threads[t] = "running"
    /\ threads' = [threads EXCEPT ![t] = "dead"]
    /\ UNCHANGED <<mcp_server_thread, mcp_server_stop_flag, mcp_server_running,
                   operator>>
    /\ UNCHANGED <<toolVars, wrapperVars, scriptVars>>

StartServer_execute ==
    /\ operator.pc = "idle"
    /\ IF is_alive(mcp_server_thread)
       THEN /\ operator' = [operator EXCEPT !.report = Some("CANCELLED")]
            /\ UNCHANGED <<mcp_server_thread, threads, mcp_server_running>>
       ELSE /\ Len(threads) < MaxThreads
            /\ threads' = Append(threads, "running")
            /\ mcp_server_thread' = Some(Len(threads) + 1)
            /\ mcp_server_running' = TRUE
            /\ operator' = [operator EXCEPT !.report = Some("FINISHED")]
    /\ UNCHANGED mcp_server_stop_flag
    /\ UNCHANGED <<toolVars, wrapperVars, scriptVars>>

\* The statements after the join of StopServer.execute (lines 167-172) and of
\* unregister (lines 218-219): "timed_out" is the thread being alive still.
after_join(pc, report) ==
    /\ mcp_server_stop_flag' = FALSE
    /\ mcp_server_thread' = None
    /\ operator' = [pc |-> pc, report |-> report,
                    timed_out |-> is_alive(mcp_server_thread)]
    /\ UNCHANGED threads

StopServer_execute ==
    /\ \/ /\ operator.pc = "idle"
          /\ mcp_server_stop_flag' = TRUE
          /\ operator' = [operator EXCEPT !.pc = "stop_join"]
          /\ UNCHANGED <<mcp_server_thread, threads, mcp_server_running>>
       \/ /\ operator.pc = "stop_join"
          /\ after_join("idle", Some("FINISHED"))
          /\ mcp_server_running' = FALSE
    /\ UNCHANGED <<toolVars, wrapperVars, scriptVars>>

unregister ==
    /\ \/ /\ operator.pc = "idle"
          /\ mcp_server_stop_flag' = TRUE
          /\ operator' = [operator EXCEPT !.pc = "unregister_join"]
          /\ UNCHANGED <<mcp_server_thread, threads>>
       \/ /\ operator.pc = "unregister_join"
          /\ after_join("unregistered", None)
    /\ UNCHANGED mcp_server_running
    /\ UNCHANGED <<toolVars, wrapperVars, scriptVars>>

\* An operator that has been entered runs to its end: the join is bounded.
operator_returns ==
    /\ operator.pc \in {"stop_join", "unregister_join"}
    /\ (StopServer_execute \/ unregister)

InitA == ToolsIdle /\ Popen(<<>>) /\ AddonNotLoaded /\ ScriptNotStarted

NextA ==
    \/ register
    \/ StartServer_execute
    \/ StopServer_execute
    \/ unregister
    \/ \E t \in 1..MaxThreads : run_mcp_server(t)

SpecA == InitA /\ [][NextA]_vars /\ WF_vars(operator_returns)

-----------------------------------------------------------------------------
(* The start-up script (src/blender_mcp_server.py), run by Blender, where  *)
(* __builtins__ is a dict.  There are two stream objects, "stdout" and     *)
(* "stderr"; sys.stderr names "stderr" throughout.  A function value is a  *)
(* record: [func |-> "write", self |-> obj] is the bound method of the     *)
(* stream obj, which writes to obj's stream.  Assigning obj.write sets an  *)
(* instance attribute, which getattr finds before the method of the type.  *)
(* The script is one thread and nothing runs between its statements, so    *)
(* lines 12-38 are one step and lines 52-54 another; code that writes runs *)
(* while src.server is imported (line 48) and inside run() (line 58).      *)

MaxWrites == 3

safe_stdout_write == [func |-> "safe_stdout_write", self |-> "none"]

getattr_write(obj) ==
    IF write_attr[obj] = None THEN [func |-> "write", self |-> obj]
    ELSE write_attr[obj].some

\* The stream a call of the write function f reaches.
call_write(f) ==
    IF f = safe_stdout_write THEN script._original_stderr_write.some.self
    ELSE f.self

\* The stream that print(text), sys.stdout.write(text) and
\* sys.stdout.buffer.write(bytes) reach in the current state.
print_to ==
    IF builtins_print = "safe_print" THEN call_write(getattr_write("stderr"))
    ELSE call_write(getattr_write(sys_stdout))

sys_stdout_write_to == call_write(getattr_write(sys_stdout))

sys_stdout_buffer_write_to == sys_stdout

Vias == {"print", "sys.stdout.write", "sys.stdout.buffer.write"}

reaches(stream, entry) ==
    /\ fd_stdout' = IF stream = "stdout" THEN Append(fd_stdout, entry) ELSE fd_stdout
    /\ fd_stderr' = IF stream = "stderr" THEN Append(fd_stderr, entry) ELSE fd_stderr

redirect ==
    /\ script.pc = "start"
    /\ LET _original_stdout == sys_stdout                     \* line 12
           redirected == "stderr"                             \* line 17
           _original_print == builtins_print                  \* line 21
           _original_stdout_write == getattr_write(redirected)  \* line 31
           _original_stderr_write == getattr_write("stderr")  \* line 32
       IN  /\ sys_stdout' = redirected
           /\ builtins_print' = "safe_print"                  \* line 27
           /\ write_attr' = [write_attr EXCEPT ![redirected] = Some(safe_stdout_write)]
           /\ script' = [pc |-> "import",
                         _original_stdout |-> Some(_original_stdout),
                         _original_print |-> Some(_original_print),
                         _original_stdout_write |-> Some(_original_stdout_write),
                         _original_stderr_write |-> Some(_original_stderr_write)]
    /\ UNCHANGED <<fd_stdout, fd_stderr>>
    /\ UNCHANGED <<toolVars, wrapperVars, addonVars>>

\* Code of the process writes a text: module-level code of the imported
\* modules, or the server and its tools inside run().
writes(via) ==
    /\ script.pc \in {"import", "run"}
    /\ Len(fd_stdout) + Len(fd_stderr) < MaxWrites
    /\ reaches(CASE via = "print" -> print_to
                 [] via = "sys.stdout.write" -> sys_stdout_write_to
                 [] OTHER -> sys_stdout_buffer_write_to,
               [via |-> via, pc |-> script.pc])
    /\ UNCHANGED <<sys_stdout, write_attr, builtins_print, script>>
    /\ UNCHANGED <<toolVars, wrapperVars, addonVars>>

\* except Exception (lines 60-65): the message goes to sys.stderr.write, then
\* sys.exit(1).
except_exit ==
    /\ reaches(call_write(getattr_write("stderr")),
               [via |-> "sys.stderr.write", pc |-> script.pc])
    /\ script' = [script EXCEPT !.pc = "exit"]
    /\ UNCHANGED <<sys_stdout, write_attr, builtins_print>>

import_run(ok) ==
    /\ script.pc = "import"
    /\ IF ok
       THEN /\ script' = [script EXCEPT !.pc = "restore"]
            /\ UNCHANGED <<sys_stdout, write_attr, builtins_print, fd_stdout, fd_stderr>>
       ELSE except_exit
    /\ UNCHANGED <<toolVars, wrapperVars, addonVars>>

restore ==
    /\ script.pc = "restore"
    /\ sys_stdout' = script._original_stdout.some             \* line 52
    /\ write_attr' = [write_attr EXCEPT                       \* line 53
                         ![script._original_stdout.some] = script._original_stdout_write]
    /\ builtins_print' = script._original_print.some          \* line 54
    /\ script' = [script EXCEPT !.pc = "run"]
    /\ UNCHANGED <<fd_stdout, fd_stderr>>
    /\ UNCHANGED <<toolVars, wrapperVars, addonVars>>

run(ok) ==
    /\ script.pc = "run"
    /\ IF ok
       THEN /\ script' = [script EXCEPT !.pc = "exit"]
            /\ UNCHANGED <<sys_stdout, write_attr, builtins_print, fd_stdout, fd_stderr>>
       ELSE except_exit
    /\ UNCHANGED <<toolVars, wrapperVars, addonVars>>

InitS == ToolsIdle /\ Popen(<<>>) /\ AddonNotLoaded /\ ScriptNotStarted

NextS ==
    \/ redirect
    \/ \E via \in Vias : writes(via)
    \/ \E ok \in BOOLEAN : import_run(ok)
    \/ restore
    \/ \E ok \in BOOLEAN : run(ok)

SpecS == InitS /\ [][NextS]_vars

-----------------------------------------------------------------------------
(* Properties of the tool layer.                                           *)

\* The input model of a tool, built from the arguments of a call.
Validated(tool, a) ==
    CASE tool = "create_cube" -> CreateCubeInput(a.name, a.size, a.location)
      [] tool = "create_sphere" ->
            CreateSphereInput(a.name, a.segments, a.ring_count, a.radius, a.calc_uvs,
                              a.enter_editmode, a.align, a.location, a.rotation, a.scale)
      [] tool = "move_object" -> MoveObjectInput(a.name, a.location)
      [] tool = "delete_object" -> DeleteObjectInput(a.name)
      [] tool = "select_object" -> SelectObjectInput(a.name)
      [] tool = "create_material" -> CreateMaterialInput(a.name, a.color)
      [] tool = "assign_material" -> AssignMaterialInput(a.object_name, a.material_name)
      [] tool = "rotate_object" -> RotateObjectInput(a.name, a.rotation)
      [] tool = "scale_object" -> ScaleObjectInput(a.name, a.scale)
      [] tool = "get_object_info" -> GetObjectInfoInput(a.name)
      [] tool = "create_camera" -> CreateCameraInput(a.name, a.location, a.rotation)
      [] tool = "create_light" ->
            CreateLightInput(a.name, a.light_type, a.location, a.energy)
      [] tool = "render_scene" ->
            RenderSceneInput(a.filepath, a.resolution_x, a.resolution_y)
      [] tool = "create_cylinder" ->
            CreateCylinderInput(a.name, a.radius, a.depth, a.location, a.vertices)
      [] tool = "create_plane" -> CreatePlaneInput(a.name, a.size, a.location)
      [] tool = "duplicate_object" -> DuplicateObjectInput(a.name, a.new_name, a.location)
      [] tool = "set_active_camera" -> SetActiveCameraInput(a.camera_name)
      [] tool = "save_file" -> SaveFileInput(a.filepath)
      [] tool = "open_file" -> OpenFileInput(a.filepath)

ToolsWithArguments ==
    {"create_cube", "create_sphere", "move_object", "delete_object", "select_object",
     "create_material", "assign_material", "rotate_object", "scale_object",
     "get_object_info", "create_camera", "create_light", "render_scene",
     "create_cylinder", "create_plane", "duplicate_object", "set_active_camera",
     "save_file", "open_file"}

\* The fields of the last call, each with the outcome of its own constraints.
LastFields == Validated(last.tool, last.args).fields
Violated(fields) == {i \in DOMAIN fields : ~fields[i].r.ok}
Called == last.tool \in ToolsWithArguments

\* C1: for every tool that takes arguments, the handler is invoked exactly
\* once when every argument satisfies the tool's input model, and not at all
\* when an argument violates a declared constraint; in that case the host
\* model is unchanged and the result is a string that begins with "Error".
C1_ValidationGatesHandler ==
    Called =>
        /\ Violated(LastFields) = {} => last.calls = 1
        /\ Violated(LastFields) # {} =>
              /\ last.calls = 0
              /\ ~last.changed
              /\ last.kind = "return"
              /\ BeginsWithError(last.text)

C1_Witness ==
    /\ last.tool = "create_cube" /\ last.args.size = 0
    /\ last.calls = 0 /\ ~last.changed /\ BeginsWithError(last.text)

\* C2: every tool call, for any arguments and any host state, a host
\* operation that raises included, returns a result string: no exception
\* crosses the tool boundary.
C2_AlwaysReturnsString ==
    last.tool # "none" => (last.kind = "return" /\ last.text # <<>>)

C2_Witness ==
    /\ last.tool = "get_scene_filepath" /\ last.hc = "raise"
    /\ last.kind = "return"
    /\ last.text = <<Lit("Error"), Lit(" ["), Lit("Get Scene Filepath"), Lit("]: "),
                     Lit("bpy operation failed")>>

NotFoundText(kind, name) ==
    <<Lit("Error"), Lit(": "), Lit(kind), Lit(" '"), Str(name), Lit("' not found")>>

LooksUpObject ==
    {"move_object", "delete_object", "select_object", "rotate_object", "scale_object",
     "get_object_info", "duplicate_object"}

\* C3: move, delete, select, rotate, scale, get-info, duplicate,
\* assign-material and set-active-camera, called with valid arguments that
\* name an entity (for assign-material, also a material) the host does not
\* have, return "Error: <Kind> '<name>' not found" and leave the host model
\* unchanged.
C3_MissingTargetShortCircuits ==
    last.calls = 1 =>
        /\ (last.tool \in LooksUpObject /\ last.args.name \notin last.before.objects) =>
              (last.text = NotFoundText("Object", last.args.name) /\ ~last.changed)
        /\ (/\ last.tool = "assign_material"
            /\ last.args.object_name \notin last.before.objects) =>
              (/\ last.text = NotFoundText("Object", last.args.object_name)
               /\ ~last.changed)
        /\ (/\ last.tool = "assign_material"
            /\ last.args.object_name \in last.before.objects
            /\ last.args.material_name \notin last.before.materials) =>
              (/\ last.text = NotFoundText("Material", last.args.material_name)
               /\ ~last.changed)
        /\ (/\ last.tool = "set_active_camera"
            /\ last.args.camera_name \notin last.before.objects) =>
              (/\ last.text = NotFoundText("Camera", last.args.camera_name)
               /\ ~last.changed)

C3_Witness ==
    /\ last.tool = "select_object" /\ last.calls = 1
    /\ last.args.name \notin last.before.objects
    /\ \E n \in DOMAIN objects : objects[n].selected
    /\ last.text = NotFoundText("Object", last.args.name)

\* C4 (as stated): where the bpy module is not available, a tool call is
\* answered, with the fixed string "Error: bpy module not found. Tool must
\* run in Blender environment.".
C4_BpyNotFoundIsReported ==
    (~bpy_available /\ phase # "boot") =>
        /\ phase = "serving"
        /\ last.tool # "none" =>
              last.text = <<Lit("Error"), Lit(": "),
                  Lit("bpy module not found. Tool must run in Blender environment.")>>

\* A field of the last call is reported: the call was rejected and the
\* returned string names the field as one in error.
Reported(f) == last.calls = 0 /\ HasLit(last.text, f)
Positions(text, f) == {p \in DOMAIN text : IsLit(text[p], f)}
IsNum(t, n) == "num" \in DOMAIN t /\ t.num = n

\* The returned string names the field and gives the field's message.
SaysOf(text, field) ==
    \E p \in Positions(text, field.loc) :
        /\ p + 1 + Len(field.r.msg) <= Len(text)
        /\ SubSeq(text, p + 2, p + 1 + Len(field.r.msg)) = field.r.msg

\* C5 (as stated): when several fields of a call violate their constraints,
\* the returned string carries the message of the first violated field, in
\* declaration order, and of no other field.
C5_FailFast ==
    (Called /\ last.calls = 0) =>
        LET fields == LastFields
            first == CHOOSE i \in Violated(fields) :
                         \A j \in Violated(fields) : i <= j
        IN  /\ SaysOf(last.text, fields[first])
            /\ \A j \in Violated(fields) \ {first} : ~Reported(fields[j].loc)

\* C5: a rejected call's string is "Error: ", the number of violated fields,
\* the input model's name and then, for every violated field in declaration
\* order and for no other field, the field's name and its message.
C5_AllViolationsReported ==
    (Called /\ last.calls = 0) =>
        LET fields == LastFields
            bad == Violated(fields)
        IN  /\ Len(last.text) >= 5
            /\ IsLit(last.text[1], "Error") /\ IsLit(last.text[2], ": ")
            /\ IsNum(last.text[3], Cardinality(bad))
            /\ \A i \in DOMAIN fields : (i \in bad) <=> Reported(fields[i].loc)
            /\ \A i \in bad : SaysOf(last.text, fields[i])
            /\ \A i, j \in bad :
                  i < j => \A p \in Positions(last.text, fields[i].loc),
                              q \in Positions(last.text, fields[j].loc) : p < q

C5_Witness ==
    /\ last.tool = "create_sphere" /\ last.calls = 0
    /\ Cardinality(Violated(LastFields)) >= 2
    /\ IsNum(last.text[3], Cardinality(Violated(LastFields)))

InvalidNameChars == {"/", "\\", ":", "*", "?", "\"", "<", ">", "|"}
HasInvalidChar(v) == \E i \in DOMAIN v : v[i] \in InvalidNameChars

\* The arguments that name an entity or a material: those whose field has
\* the character check, and those whose field has the length bounds only.
CharCheckedNames(tool) ==
    CASE tool \in {"create_cube", "create_sphere", "create_cylinder", "create_plane",
                   "create_camera", "create_light"} -> {"name"}
      [] tool = "duplicate_object" -> {"new_name"}
      [] OTHER -> {}
LengthOnlyNames(tool) ==
    CASE tool \in {"move_object", "delete_object", "select_object", "rotate_object",
                   "scale_object", "get_object_info", "create_material",
                   "duplicate_object"} -> {"name"}
      [] tool = "assign_material" -> {"object_name", "material_name"}
      [] tool = "set_active_camera" -> {"camera_name"}
      [] OTHER -> {}

\* C6 (as stated): every argument that names an entity or a material is
\* rejected when it contains one of / \ : * ? " < > |, and the handler is
\* then not invoked.
C6_EveryNameChecked ==
    Called =>
        \A f \in CharCheckedNames(last.tool) \cup LengthOnlyNames(last.tool) :
            HasInvalidChar(last.args[f]) => last.calls = 0

\* C6: the name of create_cube, create_sphere, create_cylinder, create_plane,
\* create_camera and create_light and the new_name of duplicate_object are
\* rejected when they contain one of / \ : * ? " < > |, and the handler is
\* then not invoked; every other argument that names an entity or a material
\* is checked for its length only, and is not rejected for such a character.
C6_CreatedNamesChecked ==
    Called =>
        /\ \A f \in CharCheckedNames(last.tool) :
              HasInvalidChar(last.args[f]) => Reported(f)
        /\ \A f \in LengthOnlyNames(last.tool) :
              (/\ HasInvalidChar(last.args[f])
               /\ Len(last.args[f]) >= NameMinLen
               /\ Len(last.args[f]) <= NameMaxLen) => ~Reported(f)

C6_Witness ==
    /\ last.tool = "create_camera" /\ HasInvalidChar(last.args.name)
    /\ last.calls = 0 /\ Reported("name") /\ ~last.changed

InSizeBounds(v) == SizeGt < v /\ v <= SizeLe

\* The scalar bounds of create_cube, create_plane, create_cylinder,
\* create_light and render_scene.
C7_OtherScalars ==
    /\ last.tool \in {"create_cube", "create_plane"} =>
          (Reported("size") <=> ~InSizeBounds(last.args.size))
    /\ last.tool = "create_cylinder" =>
          /\ Reported("radius") <=> ~InSizeBounds(last.args.radius)
          /\ Reported("depth") <=> ~InSizeBounds(last.args.depth)
    /\ last.tool = "create_light" =>
          (Reported("energy") <=>
              ~(EnergyGe <= last.args.energy /\ last.args.energy <= EnergyLe))
    /\ last.tool = "render_scene" =>
          /\ Reported("resolution_x") <=>
                ~(/\ ResolutionGe <= last.args.resolution_x
                  /\ last.args.resolution_x <= ResolutionLe)
          /\ Reported("resolution_y") <=>
                ~(/\ ResolutionGe <= last.args.resolution_y
                  /\ last.args.resolution_y <= ResolutionLe)

\* C7 (as stated): size, radius (of a sphere and of a cylinder) and depth are
\* accepted exactly when 0.001 < v <= 1000.0, energy exactly when
\* 0.0 <= v <= 1000.0, resolution_x and resolution_y exactly when in 1..10000.
C7_ScalarBoundsAsStated ==
    /\ C7_OtherScalars
    /\ last.tool = "create_sphere" =>
          (Reported("radius") <=> ~InSizeBounds(last.args.radius))

\* C7: size, a cylinder's radius and depth are accepted exactly when
\* 0.001 < v <= 1000.0; a sphere's radius exactly when 0.0 <= v <= 1000.0;
\* energy exactly when 0.0 <= v <= 1000.0; resolution_x and resolution_y
\* exactly when in 1..10000.
C7_ScalarBounds ==
    /\ C7_OtherScalars
    /\ last.tool = "create_sphere" =>
          (Reported("radius") <=>
              ~(RadiusGe <= last.args.radius /\ last.args.radius <= SizeLe))

C7_Witness ==
    /\ last.tool = "create_sphere" /\ last.args.radius = 0
    /\ last.calls = 1 /\ last.input.radius = 0 /\ last.changed

Outside(v, limit) == \E i \in 1..3 : v[i] < 0 - limit \/ v[i] > limit

\* Every location argument is rejected when a component lies outside
\* +/-10000.0.
C8_Locations ==
    /\ last.tool \in {"create_cube", "create_sphere", "create_cylinder", "create_plane",
                      "create_camera", "create_light", "move_object"} =>
          (Outside(last.args.location, LocationLimit) => Reported("location"))
    /\ last.tool = "duplicate_object" =>
          ((/\ "some" \in DOMAIN last.args.location
            /\ Outside(last.args.location.some, LocationLimit)) => Reported("location"))

\* C8 (as stated): every location argument is rejected when a component lies
\* outside +/-10000.0, and the rotation of rotate_object, create_sphere and
\* create_camera when a component lies outside +/-2 pi.
C8_VectorBoundsAsStated ==
    /\ C8_Locations
    /\ last.tool \in {"rotate_object", "create_sphere", "create_camera"} =>
          (Outside(last.args.rotation, RotationLimit) => Reported("rotation"))

\* C8: every location argument is rejected when a component lies outside
\* +/-10000.0; the rotation of rotate_object is rejected when a component
\* lies outside +/-6.28318; the rotation of create_sphere is rejected exactly
\* when a component lies outside +/-10000.0; the rotation of create_camera
\* is never rejected.
C8_VectorBounds ==
    /\ C8_Locations
    /\ last.tool = "rotate_object" =>
          (Outside(last.args.rotation, RotationLimit) => Reported("rotation"))
    /\ last.tool = "create_sphere" =>
          (Reported("rotation") <=> Outside(last.args.rotation, LocationLimit))
    /\ last.tool = "create_camera" => ~Reported("rotation")

C8_Witness ==
    /\ last.tool = "create_sphere" /\ Outside(last.args.rotation, RotationLimit)
    /\ last.calls = 1 /\ last.input.rotation = last.args.rotation

LightTypes == {<<"S","U","N">>, <<"P","O","I","N","T">>, <<"S","P","O","T">>,
               <<"A","R","E","A">>}
AlignModes == {<<"W","O","R","L","D">>, <<"V","I","E","W">>,
               <<"C","U","R","S","O","R">>}

\* light_type is accepted in any letter case and the handler receives it in
\* uppercase; any other value is rejected.
C9_LightType ==
    last.tool = "create_light" =>
        /\ Reported("light_type") <=> upper(last.args.light_type) \notin LightTypes
        /\ last.calls = 1 => last.input.light_type = upper(last.args.light_type)

\* C9 (as stated): light_type and align are accepted when they match an
\* allowed value in any letter case, the handler then receives the uppercase
\* value, and any other value is rejected.
C9_EnumsAnyCase ==
    /\ C9_LightType
    /\ last.tool = "create_sphere" =>
          /\ Reported("align") <=> upper(last.args.align) \notin AlignModes
          /\ last.calls = 1 => last.input.align = upper(last.args.align)

\* C9: light_type is accepted when it matches SUN, POINT, SPOT or AREA in any
\* letter case, and the handler receives it in uppercase; align is accepted
\* only when it is exactly WORLD, VIEW or CURSOR, in uppercase, and the
\* handler receives it as given; any other value of either is rejected.
C9_Enums ==
    /\ C9_LightType
    /\ last.tool = "create_sphere" =>
          /\ Reported("align") <=> last.args.align \notin AlignModes
          /\ last.calls = 1 => last.input.align = last.args.align

C9_Witness ==
    /\ last.tool = "create_light" /\ last.calls = 1
    /\ last.args.light_type = <<"S","p","o","t">>
    /\ last.input.light_type = <<"S","P","O","T">>
    /\ \E n \in DOMAIN objects :
          objects[n].type = "LIGHT" /\ objects[n].data.light = <<"S","P","O","T">>

\* render_scene with a valid filepath on a scene with no active camera
\* returns an error that mentions "No active camera" and changes nothing: no
\* render, no render setting.
C10_NoCamera ==
    (/\ last.tool = "render_scene" /\ last.calls = 1
     /\ "none" \in DOMAIN last.before.scene_camera) =>
        /\ BeginsWithError(last.text)
        /\ HasLit(last.text, "No active camera")
        /\ ~last.changed

RenderSucceeded ==
    /\ Len(last.text) >= 1 /\ IsLit(last.text[1], "Successfully")
    /\ HasStr(last.text, last.args.filepath)
    /\ HasNum(last.text, last.args.resolution_x)
    /\ HasNum(last.text, last.args.resolution_y)
    /\ last.args.filepath \in disk

\* The call of render_scene with a valid filepath that follows a successful
\* create_camera and a successful set_active_camera on that camera.
RenderAfterCamera == chain.stage = 3 /\ last.tool = "render_scene" /\ last.calls = 1

\* C10 (as stated): without an active camera render_scene returns the "No
\* active camera" error and changes nothing; after a successful create_camera
\* and a successful set_active_camera on that camera it succeeds, and its
\* message contains the filepath and the resolution.
C10_RenderAsStated ==
    /\ C10_NoCamera
    /\ RenderAfterCamera => RenderSucceeded

\* C10: without an active camera render_scene returns the "No active camera"
\* error and changes nothing; after a successful create_camera and a
\* successful set_active_camera on that camera it sets the resolution and the
\* output path and calls the host's render: when that returns, the call
\* succeeds and its message contains the filepath and the resolution; when
\* that raises, the call returns "Error [Render Scene]: ..." and the
\* settings stay changed.
C10_Render ==
    /\ C10_NoCamera
    /\ RenderAfterCamera =>
          /\ render = [resolution_x |-> last.args.resolution_x,
                       resolution_y |-> last.args.resolution_y,
                       filepath |-> last.args.filepath]
          /\ last.hc # "raise" => RenderSucceeded
          /\ last.hc = "raise" =>
                /\ Len(last.text) >= 3
                /\ IsLit(last.text[1], "Error") /\ IsLit(last.text[3], "Render Scene")
                /\ ~HasLit(last.text, "No active camera")

C10_Witness ==
    /\ RenderAfterCamera /\ last.hc = "ok" /\ RenderSucceeded
    /\ scene_camera = [some |-> chain.name]

Selected == {n \in DOMAIN objects : objects[n].selected}
SaysSuccessfully == Len(last.text) >= 1 /\ IsLit(last.text[1], "Successfully")
IsEmptySceneMessage(text) ==
    Len(text) = 1 /\ IsLit(text[1], "Scene is empty - no objects found")

\* C11: list_objects never changes the host model; on a model with no
\* entities it returns exactly "Scene is empty - no objects found", and
\* otherwise a string with "Found n object(s)", n the number of entities, and
\* the name of every entity.
C11_ListObjects ==
    last.tool = "list_objects" =>
        /\ ~last.changed
        /\ last.before.objects = {} => IsEmptySceneMessage(last.text)
        /\ last.before.objects # {} =>
              /\ Len(last.text) >= 3
              /\ IsLit(last.text[1], "Found ")
              /\ IsNum(last.text[2], Cardinality(last.before.objects))
              /\ IsLit(last.text[3], " object(s):")
              /\ \A n \in last.before.objects : HasStr(last.text, n)

C11_Witness ==
    /\ last.tool = "list_objects" /\ Cardinality(last.before.objects) = 2
    /\ IsNum(last.text[2], 2)
    /\ \A n \in DOMAIN objects : HasStr(last.text, n)

\* C17: set_active_camera makes the named entity the scene's active camera
\* only when it exists and is a camera; when it is missing or of another
\* kind the call returns an error and the active camera is unchanged.
C17_SetActiveCamera ==
    (last.tool = "set_active_camera" /\ last.calls = 1) =>
        IF last.args.camera_name \in last.before.cameras
        THEN /\ scene_camera = [some |-> last.args.camera_name]
             /\ SaysSuccessfully
        ELSE /\ BeginsWithError(last.text)
             /\ scene_camera = last.before.scene_camera
             /\ ~last.changed

C17_Witness ==
    /\ last.tool = "set_active_camera" /\ last.calls = 1
    /\ last.args.camera_name \in last.before.objects \ last.before.cameras
    /\ "some" \in DOMAIN last.before.scene_camera
    /\ BeginsWithError(last.text) /\ HasLit(last.text, "' is not a camera (type: ")
    /\ scene_camera = last.before.scene_camera

\* C18: create_material adds a material only when none has the name, and
\* then under that very name; with a name in use it returns an "already
\* exists" error and leaves the materials and their colours unchanged, so
\* that no second material of a name ever appears.
C18_CreateMaterial ==
    (last.tool = "create_material" /\ last.calls = 1) =>
        /\ last.args.name \in last.before.materials =>
              /\ BeginsWithError(last.text)
              /\ HasLit(last.text, "' already exists")
              /\ ~last.changed
        /\ DOMAIN materials # last.before.materials =>
              /\ last.args.name \notin last.before.materials
              /\ DOMAIN materials = last.before.materials \cup {last.args.name}
        /\ SaysSuccessfully => last.args.name \in DOMAIN materials

C18_Witness ==
    /\ last.tool = "create_material" /\ last.calls = 1
    /\ last.args.name \in last.before.materials
    /\ HasLit(last.text, "' already exists") /\ ~last.changed
    /\ DOMAIN materials = last.before.materials

\* clear_scene on a model with no entities returns "Scene was already empty"
\* and does nothing to the host.
C19_AlreadyEmpty ==
    (last.tool = "clear_scene" /\ last.before.objects = {}) =>
        /\ Len(last.text) = 1 /\ IsLit(last.text[1], "Scene was already empty")
        /\ ~last.changed

\* clear_scene has removed every entity and reports their number, and a
\* list_objects on the state it leaves returns the empty-scene message.
ClearedAll ==
    /\ DOMAIN objects = {}
    /\ SaysSuccessfully
    /\ HasNum(last.text, Cardinality(last.before.objects))
    /\ IsEmptySceneMessage(tool_try0(list_objects(Host, "ok")).text)

\* C19 (as stated): clear_scene on a model with n > 0 entities leaves no
\* entity and reports n, so that a list_objects right after it returns the
\* empty-scene message; on a model with no entities it returns "Scene was
\* already empty" and performs no host operation.
C19_ClearSceneAsStated ==
    /\ C19_AlreadyEmpty
    /\ (last.tool = "clear_scene" /\ last.before.objects # {}) => ClearedAll

\* C19: clear_scene on a model with n > 0 entities selects and deletes them
\* all: when the host's operators return, no entity is left, n is reported
\* and a list_objects right after it returns the empty-scene message; when
\* one of them raises, the call returns "Error [Clear Scene]: ..." and every
\* entity is still there.  On a model with no entities it returns "Scene was
\* already empty" and performs no host operation.
C19_ClearScene ==
    /\ C19_AlreadyEmpty
    /\ (last.tool = "clear_scene" /\ last.before.objects # {}) =>
          /\ last.hc = "ok" => ClearedAll
          /\ last.hc # "ok" =>
                /\ Len(last.text) >= 3
                /\ IsLit(last.text[1], "Error") /\ IsLit(last.text[3], "Clear Scene")
                /\ DOMAIN objects = last.before.objects

C19_Witness ==
    /\ last.tool = "clear_scene" /\ last.hc = "ok"
    /\ Cardinality(last.before.objects) = 2
    /\ last.before.selected # last.before.objects
    /\ ClearedAll /\ HasNum(last.text, 2)

\* C20: after a successful select_object(name) the named entity is the only
\* selected one and is the active object, whatever was selected before.
C20_SelectObject ==
    (last.tool = "select_object" /\ SaysSuccessfully) =>
        /\ Selected = {last.args.name}
        /\ active_object = [some |-> last.args.name]

C20_Witness ==
    /\ last.tool = "select_object" /\ SaysSuccessfully
    /\ last.before.selected \ {last.args.name} # {}
    /\ Selected = {last.args.name}


-----------------------------------------------------------------------------
(* Properties of the wrapper.                                              *)

\* The lines of a newline-terminated text, without their newlines.
RECURSIVE SplitLines(_)
SplitLines(text) ==
    IF text = <<>> THEN <<>>
    ELSE LET nl == find(text, "\n")
         IN  IF nl = 0 THEN <<text>>
             ELSE <<SubSeq(text, 1, nl - 1)>> \o SplitLines(SubSeq(text, nl + 1, Len(text)))

\* A JSON object with no white space around it.
IsJsonObject(line) == line # <<>> /\ line[1] = "{" /\ json_loads(line) /\ strip(line) = line
HasJsonStart(text) == contains(text, "{") \/ contains(text, "[")

RECURSIVE SelectJsonObjects(_)
SelectJsonObjects(ls) ==
    IF ls = <<>> THEN <<>>
    ELSE (IF IsJsonObject(Head(ls)) THEN <<Head(ls)>> ELSE <<>>) \o SelectJsonObjects(Tail(ls))

\* The child's output is valid UTF-8, and every line of it is text without
\* "{" and "[", or one JSON object.
LinesOfTextAndObjects ==
    LET text == decode(child_stdout)
    IN  /\ encode(text) = child_stdout
        /\ text = <<>> \/ text[Len(text)] = "\n"
        /\ \A i \in DOMAIN SplitLines(text) :
              LET line == SplitLines(text)[i]
              IN  IsJsonObject(line) \/ ~HasJsonStart(line)

AllRead == read_pos = Len(child_stdout)

\* C12 (as stated): for a child stdout made of newline-terminated lines,
\* each either text with neither "{" nor "[" or one single-line JSON object,
\* the bytes written once the whole output has been read are exactly the
\* JSON lines, each followed by one newline, in input order.
C12_ExactlyTheJsonLines ==
    (LinesOfTextAndObjects /\ AllRead)
        => Flatten(written)
              = encode(Flatten(Terminated(SelectJsonObjects(SplitLines(decode(child_stdout))))))

\* The positions at which a JSON object line of the child's output starts,
\* the position of the last byte of the object that starts at p, and the
\* number of object lines that end before p.
ObjectStarts ==
    {p \in DOMAIN child_stdout :
        child_stdout[p] = "{" /\ (p = 1 \/ child_stdout[p - 1] = "\n")}
ObjectLast(p) == p + find(SubSeq(child_stdout, p, Len(child_stdout)), "\n") - 2
ObjectsBefore(p) == Cardinality({q \in ObjectStarts : q < p})

\* The reads have delivered the first byte of the object at p, not its last.
PartlyRead(p) == p <= read_pos /\ read_pos < ObjectLast(p)

C14_NoiseIsDropped ==
    ~HasJsonStart(child_stdout) => (written = <<>> /\ Bytes(buffer) <= NoiseLimit)

\* More than 1000 bytes of such output were read, in more than one read's
\* worth of bytes, and the buffer was cleared.
C14_Witness ==
    /\ ~HasJsonStart(child_stdout)
    /\ Bytes(SubSeq(child_stdout, 1, read_pos)) > NoiseLimit
    /\ buffer = <<>>
    /\ written = <<>>


\* One complete JSON value that starts with "{" or "[", with nothing around
\* it but, optionally, a single newline after it.
IsJsonUnit(unit) ==
    LET value == IF unit # <<>> /\ unit[Len(unit)] = "\n"
                 THEN SubSeq(unit, 1, Len(unit) - 1) ELSE unit
        text == decode(value)
    IN  /\ encode(text) = value
        /\ startswith_json(text)
        /\ json_loads(text)
        /\ strip(text) = text

ExitedWithChildCode ==
    /\ main.pc = "exited"
    /\ returncode # None
    /\ main.status = exit_status(returncode)
    /\ returncode \in {Some(code) : code \in 0..255} => main.status = returncode

\* C16: once the child has exited the wrapper terminates, with the child's
\* exit code, and no join has waited longer than the join timeout, whether
\* or not the reader threads ever finish.
C16_Terminates ==
    /\ [](main.longest <= JoinTimeout /\ main.waited <= JoinTimeout)
    /\ [](main.pc = "exited" => ExitedWithChildCode)
    /\ (process = "exited") ~> ExitedWithChildCode

\* The wrapper has terminated with exit code 1 of the child after a join
\* that timed out, the stdout reader still running with output unread.
C16_Witness ==
    /\ ExitedWithChildCode
    /\ returncode = Some(1)
    /\ main.longest = JoinTimeout
    /\ stdout_thread = "running"
    /\ read_pos < Len(child_stdout)


\* The buffers on which the reader's next iteration can run an extraction
\* step: the buffer with the bytes of any read appended (none for a poll).
NextBuffers ==
    {buffer \o SubSeq(child_stdout, read_pos + 1, read_pos + n) :
        n \in 0..(Len(child_stdout) - read_pos)}

\* The earliest position of the text that holds "{" or "[", 0 for none.
EarliestStart(text) ==
    LET starts == {i \in DOMAIN text : text[i] \in {"{", "["}}
    IN  IF starts = {} THEN 0 ELSE CHOOSE i \in starts : \A j \in starts : i <= j

\* C21 (as stated): at each extraction step the JSON start is the earliest
\* position that holds "{" or "[", whichever comes first, and the bytes
\* discarded as preamble are exactly the bytes before that position.
C21_EarliestStartFound ==
    \A b \in NextBuffers :
        LET text == decode(b)
            first == EarliestStart(text)
        IN  /\ json_start(text) = first
            /\ first # 0 =>
                  without_preamble(b, json_start(text))
                      = encode(SubSeq(text, first, Len(text)))


\* C22: after every iteration of the stdout read loop the buffer holds at
\* most 100,000 bytes.
C22_BufferCapped == Bytes(buffer) <= BufferLimit

\* More than 100,000 bytes of one object line, not yet complete, were read:
\* the buffer was cleared and nothing was written.
C22_Witness ==
    /\ child_stdout \in BigFrames
    /\ PartlyRead(1)
    /\ Bytes(SubSeq(child_stdout, 1, read_pos)) > BufferLimit
    /\ Bytes(SubSeq(child_stdout, 1, read_pos - 1)) <= BufferLimit
    /\ buffer = <<>>
    /\ written = <<>>


\* A JSON object or array with no white space around it.
IsJsonFrame(line) == startswith_json(line) /\ json_loads(line) /\ strip(line) = line

\* The buffer is valid UTF-8 and holds two or more newline-terminated lines,
\* each of them a JSON frame.
SeveralFrames(b) ==
    LET text == decode(b)
    IN  /\ encode(text) = b
        /\ text # <<>> /\ text[Len(text)] = "\n"
        /\ Len(SplitLines(text)) >= 2
        /\ \A i \in DOMAIN SplitLines(text) : IsJsonFrame(SplitLines(text)[i])

\* C23 (as stated): when the buffer holds several complete newline-terminated
\* JSON frames after a read, the extraction of that iteration writes all of
\* them, in order, each followed by a newline, and removes the bytes of each
\* through its newline, so that it leaves the buffer empty.
C23_AllFramesEmitted ==
    \A b \in NextBuffers :
        SeveralFrames(b) =>
            LET e == _extract_json_from_buffer(b, <<>>)
            IN  /\ Flatten(e.written) = b
                /\ Len(e.written) = Len(SplitLines(decode(b)))
                /\ e.buffer = <<>>


\* a is b with some of its elements left out.
RECURSIVE IsSubsequence(_, _)
IsSubsequence(a, b) ==
    IF a = <<>> THEN TRUE
    ELSE IF b = <<>> THEN FALSE
    ELSE IF Head(a) = Head(b) THEN IsSubsequence(Tail(a), Tail(b))
    ELSE IsSubsequence(a, Tail(b))

\* C24 (as stated): no byte of the child's stdout is written more than once:
\* the bytes written, in the order they were written, are bytes of the
\* output read so far, each taken at most once and in the order of the output.
C24_NoByteWrittenTwice ==
    IsSubsequence(Flatten(written), SubSeq(child_stdout, 1, read_pos))

\* filter_stdout's loop over an output of which every read delivers one
\* element, and the units it has written when the reader ends.
RECURSIVE one_element_reads(_, _, _)
one_element_reads(out, b, w) ==
    IF out = <<>> THEN w \o remaining_json(b)
    ELSE LET e == _extract_json_from_buffer(Append(b, Head(out)), w)
         IN  one_element_reads(Tail(out), buffer_cap(e.buffer), e.written)

\* C29: for a fixed byte sequence on the child's stdout the bytes written
\* are the same for every way of splitting it into reads: when the reader
\* has ended they are the bytes written when every read delivers one element.
C29_SameForEverySplit ==
    stdout_thread = "done" =>
        Flatten(written) = Flatten(one_element_reads(child_stdout, <<>>, <<>>))

\* The complete lines of the child's output, as bytes without the newline.
CompleteLines ==
    LET ends == {i \in DOMAIN child_stdout : child_stdout[i] = "\n"}
    IN  IF ends = {} THEN <<>>
        ELSE SplitLines(SubSeq(child_stdout, 1,
                               CHOOSE i \in ends : \A j \in ends : j <= i))

\* C30: every complete, newline-terminated, single-line JSON object the
\* child writes is written by the wrapper, whatever text precedes it: when the
\* reader has read the whole output and ended, each such line is one of the
\* units written, with or without its newline.  (An output of more than
\* 100,000 bytes, which the cap of the read loop can cut, is left aside.)
C30_EveryObjectLineWritten ==
    (stdout_thread = "done" /\ Bytes(child_stdout) <= BufferLimit) =>
        \A i \in DOMAIN CompleteLines :
            LET line == CompleteLines[i]
            IN  (encode(decode(line)) = line /\ IsJsonObject(decode(line))) =>
                    \E u \in DOMAIN written :
                        written[u] \in {line, Append(line, "\n")}

-----------------------------------------------------------------------------
(* Properties of the add-on.                                               *)

\* C25: under any sequence of start, stop and unregister at most one worker
\* thread is alive at any time.
C25_AtMostOneWorker == Cardinality(AliveWorkers) <= 1

\* C26: once stop or unregister has set the stop flag while a worker is
\* running, that worker eventually exits.
C26_WorkerExitsAfterStop ==
    \A t \in 1..MaxThreads :
        (mcp_server_stop_flag /\ t \in AliveWorkers) ~> (t \notin AliveWorkers)

\* The other half of C26: the flag is not cleared while the worker it was set
\* for is running still.
C26_FlagHeldForWorker ==
    [][(mcp_server_stop_flag /\ ~mcp_server_stop_flag') => ~is_alive(mcp_server_thread)]_vars

-----------------------------------------------------------------------------
(* Properties of the start-up script.                                      *)

\* What holds of the redirect and the restore: nothing written while
\* src.server is imported reaches the standard output, and after the restore
\* sys.stdout names the original object, print is the built-in and the
\* binary layer sys.stdout.buffer writes to the standard output.
RedirectAndRestore ==
    /\ \A i \in DOMAIN fd_stdout : fd_stdout[i].pc = "run"
    /\ script.pc = "run" =>
          /\ sys_stdout = "stdout"
          /\ builtins_print = "print"
          /\ sys_stdout_buffer_write_to = "stdout"

\* C27: from the redirect until the restore nothing written through print
\* or sys.stdout.write reaches the real stdout; after the restore that
\* precedes run(), sys.stdout is the original stdout, sys.stdout.write
\* writes to the original stdout again and print is the original print.
C27_RedirectedThenRestored ==
    /\ \A i \in DOMAIN fd_stdout : fd_stdout[i].pc = "run"
    /\ script.pc = "run" =>
          /\ sys_stdout = "stdout"
          /\ sys_stdout_write_to = "stdout"
          /\ builtins_print = "print"

-----------------------------------------------------------------------------
(* The name a creation handler receives.                                   *)

\* The names the handler of the last call received for the entity it creates.
CreatedNames ==
    IF last.calls = 1
    THEN {last.input[f] : f \in CharCheckedNames(last.tool)}
    ELSE {}

\* What holds of them: no white space at either end, at most 63 characters.
CreatedNameStripped ==
    \A n \in CreatedNames : strip(n) = n /\ Len(n) <= NameMaxLen

\* C28: whenever a creation handler is invoked (cube, sphere, cylinder,
\* plane, camera, light, the new name of a duplicate), the name it receives
\* has no leading or trailing white space and a length of 1 to 63.
C28_CreatedNameInvariant ==
    \A n \in CreatedNames :
        /\ strip(n) = n
        /\ Len(n) >= NameMinLen
        /\ Len(n) <= NameMaxLen

=============================================================================
